---- MODULE Spec2Model ----
(***************************************************************************)
(* Model of mcp-server-as-http-core: an HTTP front end (http_server.rs)    *)
(* that serialises concurrent requests onto one child process speaking a   *)
(* line protocol over its stdin/stdout (process.rs).                       *)
(*                                                                         *)
(* Each HTTP request is one caller of handle_mcp_request.  The child is    *)
(* the environment: it answers request lines, may answer late, may answer  *)
(* with blank or undecodable lines, and may close either of its streams.   *)
(* Request handlers run to completion, except in SpecAbandon.              *)
(*                                                                         *)
(* Specifications:                                                         *)
(*   Spec         the server and its request handlers, McpHttpServer::new  *)
(*                taken as one step;                                       *)
(*   SpecEcho     the same in front of a child that echoes every line;     *)
(*   SpecBridge   callers that call McpProcess::initialize as well as      *)
(*                query, and a child that may exit;                        *)
(*   SpecStartup  McpHttpServer::new step by step: configuration, working  *)
(*                directory, clone, build, spawn;                          *)
(*   SpecRuntime  create_runtime (runtime.rs) on pairs of names;           *)
(*   SpecProvision  setup_repository of the runtime strategies, called     *)
(*                again and again on one working directory;                *)
(*   SpecDrain    the stderr reader started by spawn, next to callers of   *)
(*                query and initialize;                                    *)
(*   SpecPartial  a child that writes its reply lines in two parts and may *)
(*                write more lines than requests;                          *)
(*   SpecLive     the handlers under fair scheduling, with a pipe to the   *)
(*                child's stdin of bounded capacity;                       *)
(*   SpecAbandon  handlers whose future may be dropped at an await;        *)
(*   SpecAuth     the handlers behind bearer_auth_middleware (auth.rs),    *)
(*                for every setting of HTTP_API_KEY and DISABLE_AUTH.      *)
(***************************************************************************)
EXTENDS Integers, Sequences, FiniteSets, TLC

\* ------------------------------------------------------------------ bounds

\* Number of HTTP requests (callers of handle_mcp_request) in one run.
MaxCallers == 2

\* Resolution of the clock: the seconds that pass in one Tick.
TickSecs == 10

\* Number of calls of McpHttpServer::new for one server name in one run.
MaxStarts == 2

\* The number of request lines the pipe to the child's stdin holds unread.
PipeCapacity == 1

\* The number of lines the child writes beyond one for each request.
MaxExtra == 1

\* The number of lines the child writes to its stderr.
MaxStderr == 2

\* ------------------------------------------------------- program constants

\* Duration::from_secs(30) handed to read_response_with_timeout by query.
TimeoutSecs == 30

Callers == 1..MaxCallers

\* The error texts of process.rs, as the caller receives them.
MsgWrite == "Failed to write to MCP stdin"
MsgFlush == "Failed to flush MCP stdin"
MsgEOF == "MCP server closed the connection (EOF)"
MsgEmpty == "MCP server returned an empty line"
MsgRead == "Failed to read from MCP stdout"
MsgTimeout == "MCP server response timeout (30 seconds)"
MsgInitWrite == "Failed to write initialize request"
MsgInitFlush == "Failed to flush initialize request"
MsgInitError == "MCP initialization error"
MsgNotifyWrite == "Failed to write initialized notification"
MsgNotifyFlush == "Failed to flush initialized notification"

\* ------------------------------------------------------------------- text

\* A line is a sequence of one-character strings.  BadByte stands for a byte
\* sequence that is not valid UTF-8.
BadByte == "xFF"

NL == "\n"

\* char::is_whitespace, restricted to the characters of the model.
IsWhitespace(ch) == ch \in {" ", "\t", "\r", NL}

RECURSIVE TrimStart(_)
TrimStart(s) ==
    IF s = << >> THEN << >>
    ELSE IF IsWhitespace(Head(s)) THEN TrimStart(Tail(s))
    ELSE s

RECURSIVE TrimEnd(_)
TrimEnd(s) ==
    IF s = << >> THEN << >>
    ELSE IF IsWhitespace(s[Len(s)]) THEN TrimEnd(SubSeq(s, 1, Len(s) - 1))
    ELSE s

\* str::trim: leading and trailing whitespace removed.
Trim(s) == TrimEnd(TrimStart(s))

\* String::from_utf8 succeeds on the bytes of the line.
ValidUtf8(s) == \A i \in 1..Len(s) : s[i] # BadByte

\* The request payload carried by McpRequest.command.
Command == <<"q">>

\* JSON texts are sequences of tokens: an object is "{", the names of its
\* members, "}".  serde_json::from_str succeeds on the objects.
ParsesAsJson(text) ==
    /\ Len(text) >= 2
    /\ text[1] = "{"
    /\ text[Len(text)] = "}"
    /\ \A i \in 2..(Len(text) - 1) : text[i] \notin {"{", "}"}

\* response.get(name) is Some(_).
HasMember(text, name) == \E i \in 2..(Len(text) - 1) : text[i] = name

\* The two lines initialize writes.
InitRequest == <<"{", "initialize", "}">>
InitializedNotification == <<"{", "notifications/initialized", "}">>

\* What the child may answer in the runs with a handshake: a result, an
\* error, an object with both members, a line that is not JSON, a blank
\* line.
HandshakeBodies ==
    { <<"{", "result", "}">>, <<"{", "error", "}">>,
      <<"{", "error", "result", "}">>, <<"a">>, << >> }

\* The payloads x of query(x) in the runs against an echoing child: not
\* empty, no line terminator inside, with and without whitespace at an end.
Payloads == { <<"a">>, <<" ", "a">>, <<"b", " ">>, <<" ">> }

\* What the child may put on a reply line before its terminator.
ReplyBodies == { << >>, <<" ">>, <<"a">>, <<BadByte>> }

\* ------------------------------------------------------ start-up inputs

\* Option::None of McpServerConfig.repository and .build_command.
NoRepository == "None"
NoBuild == "None"

\* The repository URLs a configuration may name.
Repositories == {"https://host/one.git", "https://host/two.git"}

\* The build commands a configuration may name.
BuildCommands == {"npm run build"}

\* Environment variable names, and the mark of a name that is not set.
EnvKeys == {"HOME", "TOKEN"}
Unset == "unset"

\* An environment maps every name to its value or to Unset.
NoEnv == [k \in EnvKeys |-> Unset]

\* McpServerConfig.env of the configured server: its values are marked
\* "declared", those of std::env::vars() "ambient".
DeclaredEnvs == [EnvKeys -> {Unset, "declared"}]
AmbientEnvs == [EnvKeys -> {Unset, "ambient"}]

\* The configuration file as McpHttpServer::new finds it: `file` tells
\* whether it can be read and parsed and whether it holds the wanted server.
ServerConfig(repo, build, env) ==
    [file |-> "ok", repository |-> repo, build_command |-> build, env |-> env]
UnreadableConfig ==
    [file |-> "unreadable", repository |-> NoRepository,
     build_command |-> NoBuild, env |-> NoEnv]
ConfigWithoutServer ==
    [file |-> "no_server", repository |-> NoRepository,
     build_command |-> NoBuild, env |-> NoEnv]
Configs ==
    { ServerConfig(r, b, e) : r \in Repositories \cup {NoRepository},
                              b \in BuildCommands \cup {NoBuild},
                              e \in DeclaredEnvs }
      \cup {UnreadableConfig, ConfigWithoutServer}

\* The working directory before start-up: absent, present and empty, or
\* holding the clone of a repository (the .git entry names its origin).
\* `clones` counts the runs of git clone in the directory so far.
WorkTrees ==
    { [exists |-> FALSE, git |-> NoRepository, clones |-> 0],
      [exists |-> TRUE, git |-> NoRepository, clones |-> 0] }
      \cup { [exists |-> TRUE, git |-> r, clones |-> 0] : r \in Repositories }

\* ExitStatus::code() of an external command as {:?} prints it: None when a
\* signal ended the command.
ExitCodes == {"Some(0)", "Some(1)", "None"}

\* ExitStatus::success.
Success(code) == code = "Some(0)"

\* Command::envs and Command::env: the entries are set on the command, a
\* later setting of a name replacing an earlier one.
SetEnvs(cmdEnv, entries) ==
    [k \in EnvKeys |-> IF entries[k] # Unset THEN entries[k] ELSE cmdEnv[k]]

\* The environment of a process started from a Command on which first the
\* declared entries and then every ambient variable have been set: the
\* process inherits the ambient environment, overlaid with what was set.
ProcessEnv(declared, amb) ==
    SetEnvs(amb, SetEnvs(SetEnvs(NoEnv, declared), amb))

\* The error texts of start-up.
MsgConfigRead == "Failed to read config file"
MsgNoServer == "Server configuration not found for"
MsgWorkDir == "Failed to create work directory"
MsgCloneExec == "Failed to execute git clone"
MsgCloneFailed == "Git clone failed with exit code"
MsgBuildExec == "Failed to execute build command"
MsgBuildFailed == "Build command failed with exit code"
MsgSpawn == "Failed to spawn MCP process"

\* The error texts of NodeRuntime::setup_repository that differ from those
\* of start-up.
MsgRemove == "Failed to remove existing directory"
MsgSetupCloneFailed == "Git clone failed"
MsgSetupBuildFailed == "Build failed"

\* The runtime strategies, and the last segment of a repository URL:
\* repo_url.split('/').last().
Strategies == {"NodeRuntime", "PythonRuntime", "GoRuntime"}
RepoName(url) ==
    CASE url = "https://host/one.git" -> "one.git"
      [] url = "https://host/two.git" -> "two.git"
      [] OTHER -> url

\* The directories setup_repository returns.
WorkDir == <<"work_dir">>
ClonePath(url) == <<"work_dir", RepoName(url)>>

\* An entry of `ran`: external command `cmd` has been started with
\* environment `env`, or has exited with `code`.
Started(cmd, env) == [cmd |-> cmd, event |-> "start", code |-> "", env |-> env]
Exited(cmd, code) ==
    [cmd |-> cmd, event |-> "exit", code |-> code, env |-> NoEnv]

\* Output::stderr of a command that has exited with `code`: what a command
\* that failed wrote to its standard error.
Stderr(code) == IF Success(code) THEN "" ELSE "fatal: could not read from remote"

\* What McpHttpServer::new returns: Ok(server) or an McpCoreError with its
\* variant and the parts of its message.
NoResult == [kind |-> "none", variant |-> "", msg |-> "", code |-> "", arg |-> ""]
NewOk == [kind |-> "ok", variant |-> "", msg |-> "", code |-> "", arg |-> ""]
NewErr(variant, msg, code, arg) ==
    [kind |-> "err", variant |-> variant, msg |-> msg, code |-> code,
     arg |-> arg]

\* ------------------------------------------------------ runtime selection

\* The letters, for str::to_lowercase on the characters of the model.
UpperCase ==
    <<"A", "B", "C", "D", "E", "F", "G", "H", "I", "J", "K", "L", "M",
    "N", "O", "P", "Q", "R", "S", "T", "U", "V", "W", "X", "Y", "Z">>
LowerCase ==
    <<"a", "b", "c", "d", "e", "f", "g", "h", "i", "j", "k", "l", "m",
    "n", "o", "p", "q", "r", "s", "t", "u", "v", "w", "x", "y", "z">>

LowerChar(ch) ==
    IF \E i \in 1..Len(UpperCase) : UpperCase[i] = ch
      THEN LowerCase[CHOOSE i \in 1..Len(UpperCase) : UpperCase[i] = ch]
      ELSE ch

UpperChar(ch) ==
    IF \E i \in 1..Len(LowerCase) : LowerCase[i] = ch
      THEN UpperCase[CHOOSE i \in 1..Len(LowerCase) : LowerCase[i] = ch]
      ELSE ch

\* str::to_lowercase.
ToLowercase(s) == [i \in 1..Len(s) |-> LowerChar(s[i])]

\* The spellings of a runtime name that differ from s in letter case only:
\* all capitals, a capital first letter, a capital last letter.
Capitals(s) == [i \in 1..Len(s) |-> UpperChar(s[i])]
Capitalised(s) == [i \in 1..Len(s) |-> IF i = 1 THEN UpperChar(s[i]) ELSE s[i]]
CapitalLast(s) ==
    [i \in 1..Len(s) |-> IF i = Len(s) THEN UpperChar(s[i]) ELSE s[i]]

\* The names the three strategies are known by, in small letters.
NodeSpellings == { <<"n", "o", "d", "e">>, <<"n", "o", "d", "e", "j", "s">>,
                   <<"j", "a", "v", "a", "s", "c", "r", "i", "p", "t">>,
                   <<"t", "y", "p", "e", "s", "c", "r", "i", "p", "t">> }
PythonSpellings == { <<"p", "y", "t", "h", "o", "n">>, <<"p", "y", "t", "h", "o", "n", "3">>,
                     <<"p", "y">> }
GoSpellings == { <<"g", "o">>, <<"g", "o", "l", "a", "n", "g">> }

\* Names that are none of these: another language, a prefix, a name with a
\* letter too many, a name followed by a blank, the empty name.
OtherSpellings == { <<"r", "u", "s", "t">>, <<"n", "o", "d">>, <<"n", "o", "d", "e", "s">>,
                    <<"g", "o", " ">>, << >> }

\* The names handed to create_runtime.
RuntimeNames ==
    LET small == NodeSpellings \cup PythonSpellings \cup GoSpellings
                   \cup OtherSpellings
    IN  small \cup { Capitals(s) : s \in small }
              \cup { Capitalised(s) : s \in small }
              \cup { CapitalLast(s) : s \in small }

\* What create_runtime returns: Ok(Box<dyn McpRuntime>) with the strategy,
\* or an McpCoreError with its variant, its text and the name it quotes.
NotCreated == [kind |-> "none", runtime |-> "", variant |-> "", msg |-> "", arg |-> << >>]
RuntimeOk(runtime) ==
    [kind |-> "ok", runtime |-> runtime, variant |-> "", msg |-> "", arg |-> << >>]
MsgUnsupported == "Unsupported runtime type"
RuntimeErr(runtime_type) ==
    [kind |-> "err", runtime |-> "", variant |-> "RuntimeError",
     msg |-> MsgUnsupported, arg |-> runtime_type]

\* Mutant: A selection that matches the name as it is written.
create_runtime_exact(runtime_type) ==
    LET name == runtime_type IN
    IF name \in { <<"n", "o", "d", "e">>, <<"n", "o", "d", "e", "j", "s">>,
                  <<"j", "a", "v", "a", "s", "c", "r", "i", "p", "t">>,
                  <<"t", "y", "p", "e", "s", "c", "r", "i", "p", "t">> }
      THEN RuntimeOk("NodeRuntime")
    ELSE IF name \in { <<"p", "y", "t", "h", "o", "n">>, <<"p", "y", "t", "h", "o", "n", "3">>,
                       <<"p", "y">> }
      THEN RuntimeOk("PythonRuntime")
    ELSE IF name \in { <<"g", "o">>, <<"g", "o", "l", "a", "n", "g">> }
      THEN RuntimeOk("GoRuntime")
    ELSE RuntimeErr(runtime_type)

\* create_runtime: the match on runtime_type.to_lowercase().
create_runtime(runtime_type) ==
    LET name == ToLowercase(runtime_type) IN
    IF name \in { <<"n", "o", "d", "e">>, <<"n", "o", "d", "e", "j", "s">>,
                  <<"j", "a", "v", "a", "s", "c", "r", "i", "p", "t">>,
                  <<"t", "y", "p", "e", "s", "c", "r", "i", "p", "t">> }
      THEN RuntimeOk("NodeRuntime")
    ELSE IF name \in { <<"p", "y", "t", "h", "o", "n">>, <<"p", "y", "t", "h", "o", "n", "3">>,
                       <<"p", "y">> }
      THEN RuntimeOk("PythonRuntime")
    ELSE IF name \in { <<"g", "o">>, <<"g", "o", "l", "a", "n", "g">> }
      THEN RuntimeOk("GoRuntime")
    ELSE RuntimeErr(runtime_type)

\* The tool setup_environment of each strategy probes with --version.
ProbedTool ==
    [NodeRuntime |-> "node", PythonRuntime |-> "python3", GoRuntime |-> "go"]

\* --------------------------------------------------------------- variables

VARIABLES
    server,        \* McpHttpServer::new: "starting", "serving" or "failed"
    spawnCount,    \* number of child processes spawned so far
    childKilled,   \* the bridge has terminated the child
    handshake,     \* initialize: "none", "requested" or "done"
    holder,        \* the caller holding the Mutex<McpProcess> guard, 0 if free
    waitq,         \* callers queued in lock().await, in arrival order
    pc,            \* each caller's position in handle_mcp_request
    waited,        \* seconds each caller has spent in its pending read
    outcome,       \* each caller's result of query
    stdinLog,      \* every line written to the child's stdin, in order
    childPos,      \* number of stdin lines the child has consumed
    stdinClosed,   \* the child has closed the read end of its stdin
    stdoutLog,     \* every line the child has written to its stdout
    readPos,       \* number of stdout lines the bridge has consumed
    stdoutClosed,  \* the child has closed its stdout
    pipeTrace,     \* the writes and reads performed on the pipe, in order
    command,       \* McpRequest.command of each caller's request
    step,          \* the position of McpHttpServer::new among its steps
    starts,        \* number of calls of McpHttpServer::new so far
    config,        \* the McpServerConfig read from the configuration file
    ambient,       \* std::env::vars() of the server process
    workTree,      \* the server's working directory on disk
    ran,           \* the external commands run by start-up, in order
    newResult,     \* what McpHttpServer::new has returned
    runtimeType,   \* the names handed to create_runtime
    created,       \* what create_runtime has returned for each name
    probes,        \* the tools probed by setup_environment, in order
    setup,         \* the call of RuntimeStrategy::setup_repository under way
    cloneTree,     \* the directory <work_dir>/<repo_name> on disk
    drain,         \* the stderr task of spawn: "none", "running" or "ended"
    drainPos,      \* number of stderr lines the task has consumed
    stderrLog,     \* every line the child has written to its stderr
    stderrClosed,  \* the child has closed its stderr
    partial,       \* the line the child has begun on its stdout and not ended
    emitted,       \* every stdout line as the child wrote it, in order
    authEnv,       \* HTTP_API_KEY and DISABLE_AUTH as McpHttpServer::new finds them
    auth_config,   \* the AuthConfig of the server
    request        \* per caller: its Authorization header and the middleware's verdict

vars == << server, spawnCount, childKilled, handshake, holder, waitq, pc,
           waited, outcome, stdinLog, childPos, stdinClosed, stdoutLog,
           readPos, stdoutClosed, pipeTrace, command, step, starts, config,
           ambient, workTree, ran, newResult, runtimeType, created, probes,
           setup, cloneTree, drain, drainPos, stderrLog, stderrClosed,
           partial, emitted, authEnv, auth_config, request >>

serverVars == << server, spawnCount, childKilled, handshake >>
childVars == << childPos, stdinClosed, stdoutLog, stdoutClosed >>
startVars == << step, starts, config, ambient, workTree, ran, newResult >>
runtimeVars == << runtimeType, created, probes >>

provisionVars == << setup, cloneTree >>
drainVars == << drain, drainPos, stderrLog, stderrClosed >>
partialVars == << partial, emitted >>
authVars == << authEnv, auth_config, request >>

\* What no step of a request and no step of the child changes, and with it
\* what only the steps on the child's stderr and on an unfinished line change.
quietVars == << command, startVars, runtimeVars, provisionVars, authVars >>
fixedVars == << quietVars, drainVars, partialVars >>

\* A caller's result of query: Ok(McpResponse { result }) or
\* Err(ProcessError { message }).  `line` is the index in stdoutLog of the
\* line the call consumed, 0 if it consumed none.
\* `secs` is the time the call had spent in its bounded read when the bound
\* cut it short, 0 in every other case.
NoOutcome ==
    [kind |-> "none", result |-> << >>, msg |-> "", line |-> 0, secs |-> 0]
Ok(text, n) ==
    [kind |-> "ok", result |-> text, msg |-> "", line |-> n, secs |-> 0]
Err(m, n) ==
    [kind |-> "err", result |-> << >>, msg |-> m, line |-> n, secs |-> 0]
TimedOut(t) ==
    [kind |-> "err", result |-> << >>, msg |-> MsgTimeout, line |-> 0,
     secs |-> t]

\* The child has no line begun: `text` is what it has written of the line,
\* `for` the caller whose request the line answers, `holder` the caller
\* whose pending read_line has taken the text out of the pipe, and `lost`
\* tells that the text was dropped with the read that had taken it.
NoPartial == [text |-> << >>, for |-> 0, holder |-> 0, lost |-> FALSE]

\* No call of setup_repository has been made.
NoSetup == [step |-> "idle", runtime |-> "", calls |-> 0, result |-> NoResult]

\* initialize has returned Ok(()) after reading line n.
Initialized(n) ==
    [kind |-> "initialized", result |-> << >>, msg |-> "", line |-> n,
     secs |-> 0]

\* -------------------------------------------------------------- start-up

\* An Option<T>: None, or Some(x).
None == << >>
Some(x) == << x >>

\* The values HTTP_API_KEY and DISABLE_AUTH may have in the environment of
\* the server: each is not set (None) or set to a string.  A key is a
\* sequence of characters, "k1" standing for a run of them.
ApiKeys == { None, Some(<<"k1">>), Some(<< >>) }
DisableValues == { None, Some("true"), Some("false"), Some("TRUE") }
AuthEnvs == [HTTP_API_KEY : ApiKeys, DISABLE_AUTH : DisableValues]
NoAuthEnv == [HTTP_API_KEY |-> None, DISABLE_AUTH |-> None]

\* str::parse::<bool>: "true" and "false" and nothing else parse.
ParseBool(s) ==
    CASE s = "true" -> Some(TRUE)
      [] s = "false" -> Some(FALSE)
      [] OTHER -> None

\* AuthConfig::from_env: the key as it is set, and authentication enabled
\* unless DISABLE_AUTH parses as true or no key is set.
from_env(env) ==
    LET text == IF env.DISABLE_AUTH = None THEN "false"
                                           ELSE env.DISABLE_AUTH[1]
        disable_auth == IF ParseBool(text) = None THEN FALSE
                                                  ELSE ParseBool(text)[1]
    IN  [api_key |-> env.HTTP_API_KEY,
         enabled |-> ~disable_auth /\ env.HTTP_API_KEY # None]

\* The Authorization header of a request: absent (None) or a value, a
\* sequence of characters in which "Bearer", "bearer" and the key names
\* stand for runs of characters and BadByte for a byte that is not visible
\* ASCII.
BearerPrefix == <<"Bearer", " ">>
Headers == { None,
             Some(<<"Bearer", " ", "k1">>),
             Some(<<"Bearer", " ", "k2">>),
             Some(<<"bearer", " ", "k1">>),
             Some(<<"k1">>),
             Some(<<"Bearer", " ">>),
             Some(<<"Bearer", " ", BadByte>>) }

\* HeaderValue::to_str succeeds on visible ASCII only.
ToStrOk(h) == \A i \in 1..Len(h) : h[i] # BadByte

\* str::starts_with.
StartsWith(h, prefix) ==
    /\ Len(h) >= Len(prefix)
    /\ SubSeq(h, 1, Len(prefix)) = prefix

\* What the middleware does with a request: it runs the next service, or
\* answers 401 with a message.
MsgAuthMissing == "Missing Authorization header"
MsgAuthFormat == "Invalid Authorization header format"
MsgAuthScheme == "Authorization header must use Bearer token"
MsgAuthKey == "Invalid API key"
NoVerdict == [next |-> FALSE, status |-> 0, message |-> ""]
NextRun == [next |-> TRUE, status |-> 0, message |-> ""]
Unauthorized(m) == [next |-> FALSE, status |-> 401, message |-> m]
NoRequest == [authorization |-> None, verdict |-> NoVerdict]

\* Mutant: any Bearer token is let through.
AuthorizeAnyToken(cfg, header) ==
    IF ~cfg.enabled THEN NextRun
    ELSE IF cfg.api_key = None THEN NextRun
    ELSE IF header = None THEN Unauthorized(MsgAuthMissing)
    ELSE IF ~ToStrOk(header[1]) THEN Unauthorized(MsgAuthFormat)
    ELSE IF ~StartsWith(header[1], BearerPrefix)
      THEN Unauthorized(MsgAuthScheme)
    ELSE NextRun

\* The decision of bearer_auth_middleware for a request with this
\* Authorization header under this AuthConfig.
Authorize(cfg, header) ==
    IF ~cfg.enabled THEN NextRun
    ELSE IF cfg.api_key = None THEN NextRun
    ELSE IF header = None THEN Unauthorized(MsgAuthMissing)
    ELSE IF ~ToStrOk(header[1]) THEN Unauthorized(MsgAuthFormat)
    ELSE IF ~StartsWith(header[1], BearerPrefix)
      THEN Unauthorized(MsgAuthScheme)
    ELSE IF SubSeq(header[1], Len(BearerPrefix) + 1, Len(header[1]))
               # cfg.api_key[1]
      THEN Unauthorized(MsgAuthKey)
    ELSE NextRun

\* No AuthConfig is looked at: the environment names no key, and no
\* request has come in.
InitNoAuth ==
    /\ authEnv = NoAuthEnv
    /\ auth_config = from_env(NoAuthEnv)
    /\ request = [c \in Callers |-> NoRequest]

\* The server is about to be built; no child exists and no request has come.
InitProcess ==
    /\ server = "starting"
    /\ spawnCount = 0
    /\ childKilled = FALSE
    /\ handshake = "none"
    /\ holder = 0
    /\ waitq = << >>
    /\ pc = [c \in Callers |-> "idle"]
    /\ waited = [c \in Callers |-> 0]
    /\ outcome = [c \in Callers |-> NoOutcome]
    /\ stdinLog = << >>
    /\ childPos = 0
    /\ stdinClosed = FALSE
    /\ stdoutLog = << >>
    /\ readPos = 0
    /\ stdoutClosed = FALSE
    /\ pipeTrace = << >>

\* McpHttpServer::new has been called once and stands before its first step.
InitStart ==
    /\ step = "load"
    /\ starts = 1
    /\ ran = << >>
    /\ newResult = NoResult

\* One server and one environment, for the runs that take start-up as a whole.
InitFixedConfig ==
    /\ config = ServerConfig(NoRepository, NoBuild, NoEnv)
    /\ ambient = NoEnv
    /\ workTree = [exists |-> FALSE, git |-> NoRepository, clones |-> 0]

\* No call of create_runtime is under way.
InitNoRuntime ==
    /\ runtimeType = << >>
    /\ created = << >>
    /\ probes = << >>

\* No call of setup_repository is under way and its directory is absent.
InitNoSetup ==
    /\ setup = NoSetup
    /\ cloneTree = [exists |-> FALSE, clones |-> 0, removals |-> 0]

\* No child is spawned: no stderr task runs, nothing is on the child's
\* stderr, and the child has no line begun on its stdout.
InitStreams ==
    /\ drain = "none"
    /\ drainPos = 0
    /\ stderrLog = << >>
    /\ stderrClosed = FALSE
    /\ partial = NoPartial
    /\ emitted = << >>

Init ==
    /\ InitProcess
    /\ command = [c \in Callers |-> Command]
    /\ InitStart
    /\ InitFixedConfig
    /\ InitNoRuntime
    /\ InitNoSetup
    /\ InitStreams
    /\ InitNoAuth

\* McpHttpServer::new succeeds: the configuration is loaded, the child is
\* spawned by start_mcp_process and wrapped in Arc<Mutex<_>>.  No call of
\* McpProcess::initialize is made on this path.
ServerNewOk ==
    /\ server = "starting"
    /\ server' = "serving"
    /\ spawnCount' = spawnCount + 1
    /\ drain' = "running"
    /\ auth_config' = from_env(authEnv)
    /\ UNCHANGED << childKilled, handshake, holder, waitq, pc, waited,
                    outcome, stdinLog, pipeTrace, readPos >>
    /\ UNCHANGED childVars
    /\ UNCHANGED << command, startVars, runtimeVars, provisionVars,
                    authEnv, request >>
    /\ UNCHANGED << partialVars, drainPos, stderrLog, stderrClosed >>

\* McpHttpServer::new returns an error from one of its `?` steps.
ServerNewFail ==
    /\ server = "starting"
    /\ server' = "failed"
    /\ UNCHANGED << spawnCount, childKilled, handshake, holder, waitq, pc,
                    waited, outcome, stdinLog, pipeTrace, readPos >>
    /\ UNCHANGED childVars
    /\ UNCHANGED fixedVars

\* ------------------------------------- McpHttpServer::new, step by step

requestVars == << holder, waitq, pc, waited, outcome, stdinLog, readPos,
                  pipeTrace >>

\* What no step of start-up changes.
startFrame == << childKilled, handshake, command, ambient, requestVars,
                childVars, runtimeVars, provisionVars, partialVars,
                drainPos, stderrLog, stderrClosed, authEnv, request >>

\* A step returns its error through `?`: McpHttpServer::new returns it.
Abort(err) ==
    /\ step' = "done"
    /\ server' = "failed"
    /\ newResult' = err

\* McpServersConfig::load_from_file.
LoadConfig ==
    /\ step = "load"
    /\ IF config.file = "unreadable"
         THEN Abort(NewErr("ConfigurationError", MsgConfigRead, "", ""))
         ELSE step' = "lookup" /\ UNCHANGED << server, newResult >>
    /\ UNCHANGED << spawnCount, starts, config, workTree, ran >>
    /\ UNCHANGED startFrame
    /\ UNCHANGED << drain, auth_config >>

\* servers_config.get_server(server_name).
GetServer ==
    /\ step = "lookup"
    /\ IF config.file = "no_server"
         THEN Abort(NewErr("ConfigurationError", MsgNoServer, "", ""))
         ELSE step' = "mkdir" /\ UNCHANGED << server, newResult >>
    /\ UNCHANGED << spawnCount, starts, config, workTree, ran >>
    /\ UNCHANGED startFrame
    /\ UNCHANGED << drain, auth_config >>

\* tokio::fs::create_dir_all(work_dir): the directory exists afterwards, or
\* the file system refuses.
CreateWorkDir(ok) ==
    /\ step = "mkdir"
    /\ IF ok
         THEN /\ workTree' = [workTree EXCEPT !.exists = TRUE]
              /\ step' = "clone"
              /\ UNCHANGED << server, newResult >>
         ELSE /\ ~workTree.exists
              /\ Abort(NewErr("ProcessError", MsgWorkDir, "", ""))
              /\ UNCHANGED workTree
    /\ UNCHANGED << spawnCount, starts, config, ran >>
    /\ UNCHANGED startFrame
    /\ UNCHANGED << drain, auth_config >>

\* No repository is configured, or clone_repository_if_needed finds the
\* .git entry in the working directory and returns Ok(()).
CloneSkip ==
    /\ step = "clone"
    /\ config.repository = NoRepository \/ workTree.git # NoRepository
    /\ step' = "build"
    /\ UNCHANGED << server, newResult >>
    /\ UNCHANGED << spawnCount, starts, config, workTree, ran >>
    /\ UNCHANGED startFrame
    /\ UNCHANGED << drain, auth_config >>

\* Mutant: A clone step without the test for the .git entry.
CloneStartAlways(ok) ==
    /\ step = "clone"
    /\ config.repository # NoRepository
    /\ IF ok
         THEN /\ ran' = Append(ran, Started("clone", ambient))
              /\ workTree' = [workTree EXCEPT !.clones = @ + 1]
              /\ step' = "cloning"
              /\ UNCHANGED << server, newResult >>
         ELSE /\ Abort(NewErr("ProcessError", MsgCloneExec, "",
                               config.repository))
              /\ UNCHANGED << ran, workTree >>
    /\ UNCHANGED << spawnCount, starts, config >>
    /\ UNCHANGED startFrame
    /\ UNCHANGED << drain, auth_config >>

\* Mutant: git clone started and not waited for.
CloneStartNoWait(ok) ==
    /\ step = "clone"
    /\ config.repository # NoRepository
    /\ workTree.git = NoRepository
    /\ IF ok
         THEN /\ ran' = Append(ran, Started("clone", ambient))
              /\ workTree' = [workTree EXCEPT !.clones = @ + 1]
              /\ step' = "build"
              /\ UNCHANGED << server, newResult >>
         ELSE /\ Abort(NewErr("ProcessError", MsgCloneExec, "",
                               config.repository))
              /\ UNCHANGED << ran, workTree >>
    /\ UNCHANGED << spawnCount, starts, config >>
    /\ UNCHANGED startFrame
    /\ UNCHANGED << drain, auth_config >>

\* clone_repository_if_needed finds no .git entry and runs
\* `git clone <url> .` in the working directory: git starts, with the
\* environment of the server, or cannot be executed.
CloneStart(ok) ==
    /\ step = "clone"
    /\ config.repository # NoRepository
    /\ workTree.git = NoRepository
    /\ IF ok
         THEN /\ ran' = Append(ran, Started("clone", ambient))
              /\ workTree' = [workTree EXCEPT !.clones = @ + 1]
              /\ step' = "cloning"
              /\ UNCHANGED << server, newResult >>
         ELSE /\ Abort(NewErr("ProcessError", MsgCloneExec, "",
                               config.repository))
              /\ UNCHANGED << ran, workTree >>
    /\ UNCHANGED << spawnCount, starts, config >>
    /\ UNCHANGED startFrame
    /\ UNCHANGED << drain, auth_config >>

\* Mutant: A failed clone that is logged and passed over.
CloneExitLenient(code) ==
    /\ step = "cloning"
    /\ ran' = Append(ran, Exited("clone", code))
    /\ workTree' = (IF Success(code)
                      THEN [workTree EXCEPT !.git = config.repository]
                      ELSE workTree)
    /\ step' = "build"
    /\ UNCHANGED << server, newResult >>
    /\ UNCHANGED << spawnCount, starts, config >>
    /\ UNCHANGED startFrame
    /\ UNCHANGED << drain, auth_config >>

\* output().await of git clone returns: on success the working directory
\* holds the repository, otherwise the step fails with the exit code and
\* the URL in its message.
CloneExit(code) ==
    /\ step = "cloning"
    /\ ran' = Append(ran, Exited("clone", code))
    /\ IF Success(code)
         THEN /\ workTree' = [workTree EXCEPT !.git = config.repository]
              /\ step' = "build"
              /\ UNCHANGED << server, newResult >>
         ELSE /\ Abort(NewErr("ProcessError", MsgCloneFailed, code,
                               config.repository))
              /\ UNCHANGED workTree
    /\ UNCHANGED << spawnCount, starts, config >>
    /\ UNCHANGED startFrame
    /\ UNCHANGED << drain, auth_config >>

\* No build command is configured.
BuildSkip ==
    /\ step = "build"
    /\ config.build_command = NoBuild
    /\ step' = "spawn"
    /\ UNCHANGED << server, newResult >>
    /\ UNCHANGED << spawnCount, starts, config, workTree, ran >>
    /\ UNCHANGED startFrame
    /\ UNCHANGED << drain, auth_config >>

\* execute_build_command runs `sh -c <build_cmd>` in the working directory
\* with the declared entries and then the ambient variables set on it.
BuildStart(ok) ==
    /\ step = "build"
    /\ config.build_command # NoBuild
    /\ IF ok
         THEN /\ ran' = Append(ran, Started("build",
                                            ProcessEnv(config.env, ambient)))
              /\ step' = "building"
              /\ UNCHANGED << server, newResult >>
         ELSE /\ Abort(NewErr("ProcessError", MsgBuildExec, "",
                               config.build_command))
              /\ UNCHANGED ran
    /\ UNCHANGED << spawnCount, starts, config, workTree >>
    /\ UNCHANGED startFrame
    /\ UNCHANGED << drain, auth_config >>

\* Mutant: A build whose exit status is not looked at.
BuildExitIgnoresStatus(code) ==
    /\ step = "building"
    /\ ran' = Append(ran, Exited("build", code))
    /\ step' = "spawn"
    /\ UNCHANGED << server, newResult >>
    /\ UNCHANGED << spawnCount, starts, config, workTree >>
    /\ UNCHANGED startFrame
    /\ UNCHANGED << drain, auth_config >>

\* output().await of the build command returns: on failure the step fails
\* with status.code() and the command in its message.
BuildExit(code) ==
    /\ step = "building"
    /\ ran' = Append(ran, Exited("build", code))
    /\ IF Success(code)
         THEN step' = "spawn" /\ UNCHANGED << server, newResult >>
         ELSE Abort(NewErr("ProcessError", MsgBuildFailed, code,
                           config.build_command))
    /\ UNCHANGED << spawnCount, starts, config, workTree >>
    /\ UNCHANGED startFrame
    /\ UNCHANGED << drain, auth_config >>

\* McpProcess::spawn(command_builder): the child runs in the working
\* directory with its three pipes, or cannot be started.
SpawnChild(ok) ==
    /\ step = "spawn"
    /\ IF ok
         THEN /\ ran' = Append(ran, Started("spawn",
                                            ProcessEnv(config.env, ambient)))
              /\ spawnCount' = spawnCount + 1
              /\ step' = "wrap"
              /\ UNCHANGED << server, newResult >>
              /\ drain' = "running"
         ELSE /\ Abort(NewErr("ProcessError", MsgSpawn, "", ""))
              /\ UNCHANGED << ran, spawnCount, drain >>
    /\ UNCHANGED << starts, config, workTree, auth_config >>
    /\ UNCHANGED startFrame

\* AuthConfig::from_env, Arc::new(Mutex::new(mcp_process)) and Ok(Self).
WrapState ==
    /\ step = "wrap"
    /\ step' = "done"
    /\ server' = "serving"
    /\ newResult' = NewOk
    /\ auth_config' = from_env(authEnv)
    /\ UNCHANGED << spawnCount, starts, config, workTree, ran >>
    /\ UNCHANGED startFrame
    /\ UNCHANGED drain

\* McpHttpServer::new is called again for the same server name (and so for
\* the same working directory), while no request of an earlier server is
\* under way; the configuration may by now name another repository.
NewAgain(repo) ==
    /\ step = "done"
    /\ \A c \in Callers : pc[c] = "idle"
    /\ starts < MaxStarts
    /\ config.file = "ok" \/ repo = NoRepository
    /\ starts' = starts + 1
    /\ config' = [config EXCEPT !.repository = repo]
    /\ step' = "load"
    /\ server' = "starting"
    /\ newResult' = NoResult
    /\ ran' = << >>
    /\ UNCHANGED << spawnCount, workTree >>
    /\ UNCHANGED startFrame
    /\ UNCHANGED << drain, auth_config >>

\* ---------------------------------- RuntimeStrategy::setup_repository

\* What no step of setup_repository changes.
setupFrame == << serverVars, requestVars, childVars, command, step, starts,
                config, ambient, workTree, newResult, runtimeVars,
                drainVars, partialVars, authVars >>

\* setup_repository returns Ok(path).
SetupOk(path) ==
    [kind |-> "ok", variant |-> "", msg |-> "", code |-> "", arg |-> path]

\* setup_repository returns through `?` or `return Err`.
SetupReturn(res) ==
    setup' = [setup EXCEPT !.step = "done", !.result = res]

\* setup_repository of the strategy `rt` is called with the configuration
\* and the working directory, once no earlier call is under way.
SetupCall(rt) ==
    /\ setup.step \in {"idle", "done"}
    /\ setup.calls < MaxStarts
    /\ setup' = [step |-> "begin", runtime |-> rt,
                 calls |-> setup.calls + 1, result |-> NoResult]
    /\ ran' = << >>
    /\ UNCHANGED cloneTree
    /\ UNCHANGED setupFrame

\* PythonRuntime and GoRuntime: setup is not implemented, the working
\* directory is returned as it is.
SetupStub ==
    /\ setup.step = "begin"
    /\ setup.runtime \in {"PythonRuntime", "GoRuntime"}
    /\ SetupReturn(SetupOk(WorkDir))
    /\ UNCHANGED << ran, cloneTree >>
    /\ UNCHANGED setupFrame

\* NodeRuntime: with no repository the working directory is returned; with
\* one, the directory <work_dir>/<repo_name> is removed if it exists.
SetupBegin(ok) ==
    /\ setup.step = "begin"
    /\ setup.runtime = "NodeRuntime"
    /\ IF config.repository = NoRepository
         THEN /\ SetupReturn(SetupOk(WorkDir))
              /\ UNCHANGED cloneTree
         ELSE IF ~cloneTree.exists
         THEN /\ setup' = [setup EXCEPT !.step = "clone"]
              /\ UNCHANGED cloneTree
         ELSE IF ok
         THEN /\ cloneTree' = [cloneTree EXCEPT
                                   !.exists = FALSE,
                                   !.removals = cloneTree.removals + 1]
              /\ setup' = [setup EXCEPT !.step = "clone"]
         ELSE /\ SetupReturn(NewErr("RuntimeError", MsgRemove, "", ""))
              /\ UNCHANGED cloneTree
    /\ UNCHANGED ran
    /\ UNCHANGED setupFrame

\* Command::new("git").args(["clone", repo_url, clone_path]).output() starts
\* git, or fails to.
SetupCloneStart(ok) ==
    /\ setup.step = "clone"
    /\ IF ok
         THEN /\ ran' = Append(ran, Started("clone", ProcessEnv(NoEnv, ambient)))
              /\ setup' = [setup EXCEPT !.step = "cloning"]
         ELSE /\ SetupReturn(NewErr("RuntimeError", MsgCloneExec, "", ""))
              /\ UNCHANGED ran
    /\ UNCHANGED cloneTree
    /\ UNCHANGED setupFrame

\* git clone exits: on success the clone is in its directory, on failure
\* the error holds what git wrote to its standard error.
SetupCloneExit(code) ==
    /\ setup.step = "cloning"
    /\ ran' = Append(ran, Exited("clone", code))
    /\ IF Success(code)
         THEN /\ cloneTree' = [cloneTree EXCEPT
                                   !.exists = TRUE,
                                   !.clones = cloneTree.clones + 1]
              /\ setup' = [setup EXCEPT !.step = "build"]
         ELSE /\ SetupReturn(NewErr("RuntimeError", MsgSetupCloneFailed, "",
                                     Stderr(code)))
              /\ UNCHANGED cloneTree
    /\ UNCHANGED setupFrame

\* No build command is configured: Ok(clone_path).
SetupBuildSkip ==
    /\ setup.step = "build"
    /\ config.build_command = NoBuild
    /\ SetupReturn(SetupOk(ClonePath(config.repository)))
    /\ UNCHANGED << ran, cloneTree >>
    /\ UNCHANGED setupFrame

\* sh -c <build_command> is started in the clone, with the declared entries
\* and then the ambient variables set on it.
SetupBuildStart(ok) ==
    /\ setup.step = "build"
    /\ config.build_command # NoBuild
    /\ IF ok
         THEN /\ ran' = Append(ran, Started("build",
                                            ProcessEnv(config.env, ambient)))
              /\ setup' = [setup EXCEPT !.step = "building"]
         ELSE /\ SetupReturn(NewErr("RuntimeError", MsgBuildExec, "", ""))
              /\ UNCHANGED ran
    /\ UNCHANGED cloneTree
    /\ UNCHANGED setupFrame

\* The build exits: Ok(clone_path) on success.
SetupBuildExit(code) ==
    /\ setup.step = "building"
    /\ ran' = Append(ran, Exited("build", code))
    /\ IF Success(code)
         THEN SetupReturn(SetupOk(ClonePath(config.repository)))
         ELSE SetupReturn(NewErr("RuntimeError", MsgSetupBuildFailed, "",
                                 Stderr(code)))
    /\ UNCHANGED cloneTree
    /\ UNCHANGED setupFrame

\* ------------------------------------------------------ create_runtime

\* What a call of create_runtime or of setup_environment leaves alone.
runtimeFrame == << serverVars, requestVars, childVars, command, startVars,
                  runtimeType, provisionVars, drainVars, partialVars,
                  authVars >>

\* create_runtime(runtime_type) is called for the i-th name.
CreateRuntime(i) ==
    /\ created[i].kind = "none"
    /\ created' = [created EXCEPT ![i] = create_runtime(runtimeType[i])]
    /\ UNCHANGED probes
    /\ UNCHANGED runtimeFrame

\* setup_environment of the strategy created for the i-th name runs
\* `<tool> --version`.
SetupEnvironment(i) ==
    /\ created[i].kind = "ok"
    /\ \A j \in 1..Len(probes) : probes[j].for # i
    /\ probes' = Append(probes, [for |-> i,
                                 tool |-> ProbedTool[created[i].runtime]])
    /\ UNCHANGED created
    /\ UNCHANGED runtimeFrame

\* ------------------------------------------------- handle_mcp_request

\* The positions of a caller between acquiring the guard and returning.
InQuery == {"locked", "written", "reading"}

\* The positions in which a caller is inside read_response_with_timeout:
\* called by query, and called by initialize.
Reading == {"reading", "ireading"}

\* Mutant: lock() that hands out the guard while another caller holds it.
LockNoWait(c) ==
    /\ server = "serving"
    /\ pc[c] = "idle"
    /\ holder' = c
    /\ pc' = [pc EXCEPT ![c] = "locked"]
    /\ UNCHANGED << waitq, waited, outcome, stdinLog, readPos, pipeTrace >>
    /\ UNCHANGED serverVars
    /\ UNCHANGED childVars
    /\ UNCHANGED fixedVars

\* server_state.mcp_process.lock().await: the guard is taken at once when it
\* is free, otherwise the caller joins the queue of waiters.
Lock(c) ==
    /\ server = "serving"
    /\ pc[c] = "idle"
    /\ IF holder = 0
         THEN /\ holder' = c
              /\ pc' = [pc EXCEPT ![c] = "locked"]
              /\ waitq' = waitq
         ELSE /\ holder' = holder
              /\ pc' = [pc EXCEPT ![c] = "waiting"]
              /\ waitq' = Append(waitq, c)
    /\ UNCHANGED << waited, outcome, stdinLog, readPos, pipeTrace >>
    /\ UNCHANGED serverVars
    /\ UNCHANGED childVars
    /\ UNCHANGED fixedVars

\* Mutant: A return path that keeps the guard when query has failed.
FinishKeepOnError(c, res) ==
    /\ outcome' = [outcome EXCEPT ![c] = res]
    /\ waited' = [waited EXCEPT ![c] = 0]
    /\ IF res.kind = "err" \/ waitq = << >>
         THEN /\ holder' = (IF res.kind = "err" THEN c ELSE 0)
              /\ pc' = [pc EXCEPT ![c] = "done"]
              /\ waitq' = waitq
         ELSE /\ holder' = Head(waitq)
              /\ pc' = [pc EXCEPT ![c] = "done", ![Head(waitq)] = "locked"]
              /\ waitq' = Tail(waitq)

\* query returns `res` to handle_mcp_request, which returns in turn: the
\* guard goes out of scope and the mutex passes to the first waiter, if any.
Finish(c, res) ==
    /\ outcome' = [outcome EXCEPT ![c] = res]
    /\ waited' = [waited EXCEPT ![c] = 0]
    /\ IF waitq = << >>
         THEN /\ holder' = 0
              /\ pc' = [pc EXCEPT ![c] = "done"]
              /\ waitq' = waitq
         ELSE /\ holder' = Head(waitq)
              /\ pc' = [pc EXCEPT ![c] = "done", ![Head(waitq)] = "locked"]
              /\ waitq' = Tail(waitq)

\* Mutant: a failed write whose error is dropped: the caller goes on to read.
WriteIgnoresFailure(c) ==
    /\ pc[c] = "locked"
    /\ IF stdinClosed
         THEN UNCHANGED << stdinLog, pipeTrace >>
         ELSE /\ stdinLog' = Append(stdinLog, [kind |-> "query", id |-> c,
                                               text |-> command[c] \o <<NL>>])
              /\ pipeTrace' = Append(pipeTrace, <<"w", c>>)
    /\ pc' = [pc EXCEPT ![c] = "reading"]
    /\ UNCHANGED << holder, waitq, outcome, waited, readPos >>
    /\ UNCHANGED serverVars
    /\ UNCHANGED childVars
    /\ UNCHANGED fixedVars

\* stdin.write_all(command + "\n"): the line reaches the pipe, or the write
\* fails because the child has closed its stdin and query returns the error.
Write(c) ==
    /\ pc[c] = "locked"
    /\ IF stdinClosed
         THEN /\ Finish(c, Err(MsgWrite, 0))
              /\ UNCHANGED << stdinLog, pipeTrace >>
         ELSE /\ stdinLog' = Append(stdinLog, [kind |-> "query", id |-> c,
                                               text |-> command[c] \o <<NL>>])
              /\ pipeTrace' = Append(pipeTrace, <<"w", c>>)
              /\ pc' = [pc EXCEPT ![c] = "written"]
              /\ UNCHANGED << holder, waitq, outcome, waited >>
    /\ UNCHANGED readPos
    /\ UNCHANGED serverVars
    /\ UNCHANGED childVars
    /\ UNCHANGED fixedVars

\* The pipe to the child's stdin has room for one more line.
PipeHasRoom == Len(stdinLog) - childPos < PipeCapacity

\* write_all of query under the capacity of the pipe: it returns once the
\* line is in the pipe, or with an error on the closed pipe, and is pending
\* for as long as the pipe is full of lines the child has not read.
WriteWhenRoom(c) ==
    /\ stdinClosed \/ PipeHasRoom
    /\ Write(c)

\* Mutant: the guard is given up once the request is written, before the
\* read begins.
FlushDropsGuard(c) ==
    /\ pc[c] = "written"
    /\ IF stdinClosed
         THEN Finish(c, Err(MsgFlush, 0))
         ELSE /\ IF waitq = << >>
                   THEN /\ holder' = 0
                        /\ pc' = [pc EXCEPT ![c] = "reading"]
                        /\ waitq' = waitq
                   ELSE /\ holder' = Head(waitq)
                        /\ pc' = [pc EXCEPT ![c] = "reading",
                                           ![Head(waitq)] = "locked"]
                        /\ waitq' = Tail(waitq)
              /\ UNCHANGED << outcome, waited >>
    /\ UNCHANGED << stdinLog, readPos, pipeTrace >>
    /\ UNCHANGED serverVars
    /\ UNCHANGED childVars
    /\ UNCHANGED fixedVars

\* Mutant: a failed flush falls through to the read: a line that waits in
\* the child's output is consumed before the error is returned.
FlushReadsOnFailure(c) ==
    /\ pc[c] = "written"
    /\ IF stdinClosed
         THEN /\ Finish(c, Err(MsgFlush, 0))
              /\ IF readPos < Len(stdoutLog)
                    THEN /\ readPos' = readPos + 1
                         /\ pipeTrace' = Append(pipeTrace, <<"r", c>>)
                    ELSE UNCHANGED << readPos, pipeTrace >>
         ELSE /\ pc' = [pc EXCEPT ![c] = "reading"]
              /\ UNCHANGED << holder, waitq, outcome, waited >>
              /\ UNCHANGED << readPos, pipeTrace >>
    /\ UNCHANGED stdinLog
    /\ UNCHANGED serverVars
    /\ UNCHANGED childVars
    /\ UNCHANGED fixedVars

\* stdin.flush(): on success the caller starts its bounded read.
Flush(c) ==
    /\ pc[c] = "written"
    /\ IF stdinClosed
         THEN Finish(c, Err(MsgFlush, 0))
         ELSE /\ pc' = [pc EXCEPT ![c] = "reading"]
              /\ UNCHANGED << holder, waitq, outcome, waited >>
    /\ UNCHANGED << stdinLog, readPos, pipeTrace >>
    /\ UNCHANGED serverVars
    /\ UNCHANGED childVars
    /\ UNCHANGED fixedVars

\* Mutant: A line handed back as read, terminator and all.
LineResultUntrimmed(n) ==
    LET text == stdoutLog[n].text IN
    IF ~ValidUtf8(text) THEN Err(MsgRead, n)
    ELSE IF Trim(text) = << >> THEN Err(MsgEmpty, n)
    ELSE Ok(text, n)

\* Mutant: A line check without the test for an empty line.
LineResultNoEmptyCheck(n) ==
    LET text == stdoutLog[n].text IN
    IF ~ValidUtf8(text) THEN Err(MsgRead, n) ELSE Ok(Trim(text), n)

\* What read_response_with_timeout makes of line number n of the child's
\* output once read_line has returned it.
LineResult(n) ==
    LET text == stdoutLog[n].text IN
    IF ~ValidUtf8(text) THEN Err(MsgRead, n)
    ELSE IF Trim(text) = << >> THEN Err(MsgEmpty, n)
    ELSE Ok(Trim(text), n)

\* read_line returns the next line of the child's output.
ReadLine(c) ==
    /\ pc[c] = "reading"
    /\ readPos < Len(stdoutLog)
    /\ readPos' = readPos + 1
    /\ Finish(c, LineResult(readPos + 1))
    /\ pipeTrace' = Append(pipeTrace, <<"r", c>>)
    /\ UNCHANGED stdinLog
    /\ UNCHANGED serverVars
    /\ UNCHANGED childVars
    /\ UNCHANGED fixedVars

\* Mutant: Ok(0) taken for a line: end of stream reported as an empty line.
ReadEOFAsEmptyLine(c) ==
    /\ pc[c] = "reading"
    /\ readPos = Len(stdoutLog)
    /\ stdoutClosed
    /\ Finish(c, Err(MsgEmpty, 0))
    /\ pipeTrace' = Append(pipeTrace, <<"r", c>>)
    /\ UNCHANGED << stdinLog, readPos >>
    /\ UNCHANGED serverVars
    /\ UNCHANGED childVars
    /\ UNCHANGED fixedVars

\* read_line returns Ok(0): end of the child's output.
ReadEOF(c) ==
    /\ pc[c] = "reading"
    /\ readPos = Len(stdoutLog)
    /\ stdoutClosed
    /\ Finish(c, Err(MsgEOF, 0))
    /\ pipeTrace' = Append(pipeTrace, <<"r", c>>)
    /\ UNCHANGED << stdinLog, readPos >>
    /\ UNCHANGED serverVars
    /\ UNCHANGED childVars
    /\ UNCHANGED fixedVars

\* The future of read_line is dropped: the bytes it had taken out of the
\* pipe for a line not yet ended go with it.
DropHeld(c) ==
    IF partial.holder = c
      THEN [partial EXCEPT !.holder = 0, !.lost = TRUE]
      ELSE partial

\* Mutant: A timer that fires one tick early.
ReadTimeoutEarly(c) ==
    /\ pc[c] = "reading"
    /\ waited[c] >= TimeoutSecs - TickSecs
    /\ readPos = Len(stdoutLog)
    /\ ~stdoutClosed
    /\ Finish(c, TimedOut(waited[c]))
    /\ pipeTrace' = Append(pipeTrace, <<"r", c>>)
    /\ UNCHANGED << stdinLog, readPos >>
    /\ UNCHANGED serverVars
    /\ UNCHANGED childVars
    /\ partial' = DropHeld(c)
    /\ UNCHANGED << quietVars, drainVars, emitted >>

\* Mutant: A timeout that writes the request again before giving up (a retry).
ReadTimeoutRetry(c) ==
    /\ pc[c] = "reading"
    /\ waited[c] >= TimeoutSecs
    /\ readPos = Len(stdoutLog)
    /\ ~stdoutClosed
    /\ Finish(c, TimedOut(waited[c]))
    /\ stdinLog' = Append(stdinLog, [kind |-> "query", id |-> c,
                                     text |-> command[c] \o <<NL>>])
    /\ pipeTrace' = Append(pipeTrace, <<"r", c>>)
    /\ UNCHANGED readPos
    /\ UNCHANGED serverVars
    /\ UNCHANGED childVars
    /\ partial' = DropHeld(c)
    /\ UNCHANGED << quietVars, drainVars, emitted >>

\* Mutant: A timeout that wins over a line already in the stream and drops the line.
ReadTimeoutDropsLine(c) ==
    /\ pc[c] = "reading"
    /\ waited[c] >= TimeoutSecs
    /\ ~stdoutClosed
    /\ readPos' = (IF readPos < Len(stdoutLog) THEN readPos + 1 ELSE readPos)
    /\ Finish(c, TimedOut(waited[c]))
    /\ pipeTrace' = Append(pipeTrace, <<"r", c>>)
    /\ UNCHANGED stdinLog
    /\ UNCHANGED serverVars
    /\ UNCHANGED childVars
    /\ partial' = DropHeld(c)
    /\ UNCHANGED << quietVars, drainVars, emitted >>

\* tokio::time::timeout polls the read first and the timer second: the
\* timeout is returned when the bound has elapsed and read_line is pending.
ReadTimeout(c) ==
    /\ pc[c] = "reading"
    /\ waited[c] >= TimeoutSecs
    /\ readPos = Len(stdoutLog)
    /\ ~stdoutClosed
    /\ Finish(c, TimedOut(waited[c]))
    /\ pipeTrace' = Append(pipeTrace, <<"r", c>>)
    /\ UNCHANGED << stdinLog, readPos >>
    /\ UNCHANGED serverVars
    /\ UNCHANGED childVars
    /\ partial' = DropHeld(c)
    /\ UNCHANGED << quietVars, drainVars, emitted >>

\* TickSecs seconds pass.  A timer that is due fires before time moves on.
Tick ==
    /\ \E c \in Callers : pc[c] \in Reading
    /\ \A c \in Callers : pc[c] \in Reading => waited[c] < TimeoutSecs
    /\ waited' = [c \in Callers |->
                     IF pc[c] \in Reading THEN waited[c] + TickSecs
                                          ELSE waited[c]]
    /\ UNCHANGED << holder, waitq, pc, outcome, stdinLog, readPos, pipeTrace >>
    /\ UNCHANGED serverVars
    /\ UNCHANGED childVars
    /\ UNCHANGED fixedVars

\* The future of handle_mcp_request is dropped at one of its await points
\* (the connection of its client has closed): a caller waiting in
\* lock().await leaves the queue; a caller inside query drops its guard,
\* which passes to the caller waiting longest, and what its read_line had
\* taken goes with it.  Nothing is returned.
Abandon(c) ==
    /\ pc[c] \in {"waiting", "locked", "written", "reading"}
    /\ IF pc[c] = "waiting"
         THEN /\ waitq' = SelectSeq(waitq, LAMBDA d : d # c)
              /\ pc' = [pc EXCEPT ![c] = "dropped"]
              /\ UNCHANGED holder
         ELSE IF waitq = << >>
         THEN /\ holder' = 0
              /\ pc' = [pc EXCEPT ![c] = "dropped"]
              /\ waitq' = waitq
         ELSE /\ holder' = Head(waitq)
              /\ pc' = [pc EXCEPT ![c] = "dropped", ![Head(waitq)] = "locked"]
              /\ waitq' = Tail(waitq)
    /\ waited' = [waited EXCEPT ![c] = 0]
    /\ partial' = DropHeld(c)
    /\ UNCHANGED << outcome, stdinLog, readPos, pipeTrace >>
    /\ UNCHANGED serverVars
    /\ UNCHANGED childVars
    /\ UNCHANGED << quietVars, drainVars, emitted >>

\* ------------------------------------------------ McpProcess::initialize

\* Mutant: A write on the closed stdin that reports no error.
InitWriteNoEpipe(c) ==
    /\ pc[c] = "locked"
    /\ stdinLog' = Append(stdinLog, [kind |-> "initialize", id |-> c,
                                     text |-> InitRequest \o <<NL>>])
    /\ pipeTrace' = Append(pipeTrace, <<"w", c>>)
    /\ pc' = [pc EXCEPT ![c] = "iwritten"]
    /\ handshake' = "requested"
    /\ UNCHANGED << holder, waitq, outcome, waited >>
    /\ UNCHANGED << readPos, server, spawnCount, childKilled >>
    /\ UNCHANGED childVars
    /\ UNCHANGED fixedVars

\* stdin.write_all(init_message + "\n") by the caller that holds the bridge.
InitWrite(c) ==
    /\ pc[c] = "locked"
    /\ IF stdinClosed
         THEN /\ Finish(c, Err(MsgInitWrite, 0))
              /\ UNCHANGED << stdinLog, pipeTrace, handshake >>
         ELSE /\ stdinLog' = Append(stdinLog, [kind |-> "initialize", id |-> c,
                                               text |-> InitRequest \o <<NL>>])
              /\ pipeTrace' = Append(pipeTrace, <<"w", c>>)
              /\ pc' = [pc EXCEPT ![c] = "iwritten"]
              /\ handshake' = "requested"
              /\ UNCHANGED << holder, waitq, outcome, waited >>
    /\ UNCHANGED << readPos, server, spawnCount, childKilled >>
    /\ UNCHANGED childVars
    /\ UNCHANGED fixedVars

\* stdin.flush() after the initialize request.
InitFlush(c) ==
    /\ pc[c] = "iwritten"
    /\ IF stdinClosed
         THEN Finish(c, Err(MsgInitFlush, 0))
         ELSE /\ pc' = [pc EXCEPT ![c] = "ireading"]
              /\ UNCHANGED << holder, waitq, outcome, waited >>
    /\ UNCHANGED << stdinLog, readPos, pipeTrace >>
    /\ UNCHANGED serverVars
    /\ UNCHANGED childVars
    /\ UNCHANGED fixedVars

\* Mutant: Ok(()) returned as soon as the reply is read, no notification.
InitReadSkipsNotification(c) ==
    /\ pc[c] = "ireading"
    /\ readPos < Len(stdoutLog)
    /\ readPos' = readPos + 1
    /\ pipeTrace' = Append(pipeTrace, <<"r", c>>)
    /\ LET n == readPos + 1
           res == LineResult(n)
       IN  IF res.kind = "err"
             THEN Finish(c, res) /\ UNCHANGED handshake
             ELSE IF ParsesAsJson(res.result) /\ HasMember(res.result, "error")
             THEN Finish(c, Err(MsgInitError, n)) /\ UNCHANGED handshake
             ELSE Finish(c, Initialized(n)) /\ handshake' = "done"
    /\ UNCHANGED stdinLog
    /\ UNCHANGED << server, spawnCount, childKilled >>
    /\ UNCHANGED childVars
    /\ UNCHANGED fixedVars

\* Mutant: a reply that does not parse as JSON aborts the handshake.
InitReadStrict(c) ==
    /\ pc[c] = "ireading"
    /\ readPos < Len(stdoutLog)
    /\ readPos' = readPos + 1
    /\ pipeTrace' = Append(pipeTrace, <<"r", c>>)
    /\ LET n == readPos + 1
           res == LineResult(n)
       IN  IF res.kind = "err"
             THEN Finish(c, res)
             ELSE IF \/ ~ParsesAsJson(res.result)
                     \/ HasMember(res.result, "error")
             THEN Finish(c, Err(MsgInitError, n))
             ELSE /\ pc' = [pc EXCEPT ![c] = "inotify"]
                  /\ outcome' = [outcome EXCEPT ![c].line = n]
                  /\ waited' = [waited EXCEPT ![c] = 0]
                  /\ UNCHANGED << holder, waitq >>
    /\ UNCHANGED stdinLog
    /\ UNCHANGED serverVars
    /\ UNCHANGED childVars
    /\ UNCHANGED fixedVars

\* Mutant: the "error" member is looked at only when there is no "result".
InitReadResultWins(c) ==
    /\ pc[c] = "ireading"
    /\ readPos < Len(stdoutLog)
    /\ readPos' = readPos + 1
    /\ pipeTrace' = Append(pipeTrace, <<"r", c>>)
    /\ LET n == readPos + 1
           res == LineResult(n)
       IN  IF res.kind = "err"
             THEN Finish(c, res)
             ELSE IF /\ ParsesAsJson(res.result)
                     /\ HasMember(res.result, "error")
                     /\ ~HasMember(res.result, "result")
             THEN Finish(c, Err(MsgInitError, n))
             ELSE /\ pc' = [pc EXCEPT ![c] = "inotify"]
                  /\ outcome' = [outcome EXCEPT ![c].line = n]
                  /\ waited' = [waited EXCEPT ![c] = 0]
                  /\ UNCHANGED << holder, waitq >>
    /\ UNCHANGED stdinLog
    /\ UNCHANGED serverVars
    /\ UNCHANGED childVars
    /\ UNCHANGED fixedVars

\* Mutant: the notification is written before the reply is looked at, so
\* also when the reply carries an "error" member and initialize fails.
InitReadNotifiesOnError(c) ==
    /\ pc[c] = "ireading"
    /\ readPos < Len(stdoutLog)
    /\ readPos' = readPos + 1
    /\ LET n == readPos + 1
           res == LineResult(n)
       IN  IF res.kind = "err"
             THEN /\ Finish(c, res)
                  /\ pipeTrace' = Append(pipeTrace, <<"r", c>>)
                  /\ UNCHANGED stdinLog
             ELSE IF ParsesAsJson(res.result) /\ HasMember(res.result, "error")
             THEN /\ Finish(c, Err(MsgInitError, n))
                  /\ pipeTrace' = pipeTrace \o << <<"r", c>>, <<"w", c>> >>
                  /\ stdinLog' = Append(stdinLog,
                         [kind |-> "notification", id |-> c,
                          text |-> InitializedNotification \o <<NL>>])
             ELSE /\ pc' = [pc EXCEPT ![c] = "inotify"]
                  /\ outcome' = [outcome EXCEPT ![c].line = n]
                  /\ waited' = [waited EXCEPT ![c] = 0]
                  /\ pipeTrace' = Append(pipeTrace, <<"r", c>>)
                  /\ UNCHANGED << holder, waitq, stdinLog >>
    /\ UNCHANGED serverVars
    /\ UNCHANGED childVars
    /\ UNCHANGED fixedVars

\* read_response_with_timeout returns a line to initialize: an error of the
\* read is returned as it is, a JSON reply with an "error" member is an
\* initialization error, and every other line (a result, an object with
\* neither member, a line that is not JSON) lets the handshake go on.
InitRead(c) ==
    /\ pc[c] = "ireading"
    /\ readPos < Len(stdoutLog)
    /\ readPos' = readPos + 1
    /\ pipeTrace' = Append(pipeTrace, <<"r", c>>)
    /\ LET n == readPos + 1
           res == LineResult(n)
       IN  IF res.kind = "err"
             THEN Finish(c, res)
             ELSE IF ParsesAsJson(res.result) /\ HasMember(res.result, "error")
             THEN Finish(c, Err(MsgInitError, n))
             ELSE /\ pc' = [pc EXCEPT ![c] = "inotify"]
                  /\ outcome' = [outcome EXCEPT ![c].line = n]
                  /\ waited' = [waited EXCEPT ![c] = 0]
                  /\ UNCHANGED << holder, waitq >>
    /\ UNCHANGED stdinLog
    /\ UNCHANGED serverVars
    /\ UNCHANGED childVars
    /\ UNCHANGED fixedVars

\* The read of initialize sees the end of the child's output.
InitReadEOF(c) ==
    /\ pc[c] = "ireading"
    /\ readPos = Len(stdoutLog)
    /\ stdoutClosed
    /\ Finish(c, Err(MsgEOF, 0))
    /\ pipeTrace' = Append(pipeTrace, <<"r", c>>)
    /\ UNCHANGED << stdinLog, readPos >>
    /\ UNCHANGED serverVars
    /\ UNCHANGED childVars
    /\ UNCHANGED fixedVars

\* The read of initialize runs into its bound of TimeoutSecs seconds.
InitReadTimeout(c) ==
    /\ pc[c] = "ireading"
    /\ waited[c] >= TimeoutSecs
    /\ readPos = Len(stdoutLog)
    /\ ~stdoutClosed
    /\ Finish(c, TimedOut(waited[c]))
    /\ pipeTrace' = Append(pipeTrace, <<"r", c>>)
    /\ UNCHANGED << stdinLog, readPos >>
    /\ UNCHANGED serverVars
    /\ UNCHANGED childVars
    /\ partial' = DropHeld(c)
    /\ UNCHANGED << quietVars, drainVars, emitted >>

\* stdin.write_all(notification_message + "\n").
InitNotify(c) ==
    /\ pc[c] = "inotify"
    /\ IF stdinClosed
         THEN /\ Finish(c, Err(MsgNotifyWrite, outcome[c].line))
              /\ UNCHANGED << stdinLog, pipeTrace >>
         ELSE /\ stdinLog' = Append(stdinLog,
                     [kind |-> "notification", id |-> c,
                      text |-> InitializedNotification \o <<NL>>])
              /\ pipeTrace' = Append(pipeTrace, <<"w", c>>)
              /\ pc' = [pc EXCEPT ![c] = "inotified"]
              /\ UNCHANGED << holder, waitq, outcome, waited >>
    /\ UNCHANGED readPos
    /\ UNCHANGED serverVars
    /\ UNCHANGED childVars
    /\ UNCHANGED fixedVars

\* stdin.flush() after the notification, and Ok(()).
InitNotifyFlush(c) ==
    /\ pc[c] = "inotified"
    /\ IF stdinClosed
         THEN /\ Finish(c, Err(MsgNotifyFlush, outcome[c].line))
              /\ UNCHANGED handshake
         ELSE /\ Finish(c, Initialized(outcome[c].line))
              /\ handshake' = "done"
    /\ UNCHANGED << stdinLog, readPos, pipeTrace >>
    /\ UNCHANGED << server, spawnCount, childKilled >>
    /\ UNCHANGED childVars
    /\ UNCHANGED fixedVars

\* ------------------------------------------------------------- the child

\* The child reads its next request line and writes one reply line for it.
ChildReply(body) ==
    /\ server = "serving"
    /\ ~stdinClosed
    /\ ~stdoutClosed
    /\ childPos < Len(stdinLog)
    /\ childPos' = childPos + 1
    /\ stdoutLog' = Append(stdoutLog, [text |-> body \o <<NL>>,
                                       for |-> stdinLog[childPos + 1].id])
    /\ UNCHANGED << stdinClosed, stdoutClosed >>
    /\ UNCHANGED << holder, waitq, pc, waited, outcome, stdinLog, readPos,
                    pipeTrace >>
    /\ UNCHANGED serverVars
    /\ UNCHANGED fixedVars

\* The child closes its standard output.
ChildCloseStdout ==
    /\ server = "serving"
    /\ ~stdoutClosed
    /\ stdoutClosed' = TRUE
    /\ UNCHANGED << childPos, stdinClosed, stdoutLog >>
    /\ UNCHANGED << holder, waitq, pc, waited, outcome, stdinLog, readPos,
                    pipeTrace >>
    /\ UNCHANGED serverVars
    /\ UNCHANGED fixedVars

\* The child closes its standard input (or exits with it).
ChildCloseStdin ==
    /\ server = "serving"
    /\ ~stdinClosed
    /\ stdinClosed' = TRUE
    /\ UNCHANGED << childPos, stdoutLog, stdoutClosed >>
    /\ UNCHANGED << holder, waitq, pc, waited, outcome, stdinLog, readPos,
                    pipeTrace >>
    /\ UNCHANGED serverVars
    /\ UNCHANGED fixedVars

\* The child reads a notification and answers nothing.
ChildSkip ==
    /\ server = "serving"
    /\ ~stdinClosed
    /\ childPos < Len(stdinLog)
    /\ stdinLog[childPos + 1].kind = "notification"
    /\ childPos' = childPos + 1
    /\ UNCHANGED << stdinClosed, stdoutLog, stdoutClosed >>
    /\ UNCHANGED << holder, waitq, pc, waited, outcome, stdinLog, readPos,
                    pipeTrace >>
    /\ UNCHANGED serverVars
    /\ UNCHANGED fixedVars

\* The child process exits: both of its streams are closed.
ChildExit ==
    /\ server = "serving"
    /\ ~stdinClosed
    /\ stdinClosed' = TRUE
    /\ stdoutClosed' = TRUE
    /\ stderrClosed' = TRUE
    /\ UNCHANGED << childPos, stdoutLog >>
    /\ UNCHANGED << holder, waitq, pc, waited, outcome, stdinLog, readPos,
                    pipeTrace >>
    /\ UNCHANGED serverVars
    /\ UNCHANGED << quietVars, partialVars, drain, drainPos, stderrLog >>

\* An echoing child: it reads its next request line and writes the same
\* line back, terminator included.
ChildEcho ==
    /\ server = "serving"
    /\ ~stdinClosed
    /\ ~stdoutClosed
    /\ childPos < Len(stdinLog)
    /\ childPos' = childPos + 1
    /\ stdoutLog' = Append(stdoutLog, [text |-> stdinLog[childPos + 1].text,
                                       for |-> stdinLog[childPos + 1].id])
    /\ UNCHANGED << stdinClosed, stdoutClosed >>
    /\ UNCHANGED << holder, waitq, pc, waited, outcome, stdinLog, readPos,
                    pipeTrace >>
    /\ UNCHANGED serverVars
    /\ UNCHANGED fixedVars

\* ------------------------------------- a child that writes in parts

\* What the child writes of a reply line at first, and what it writes to
\* end the line, before the terminator.
LineHeads == { <<"a">> }
LineTails == { <<"b">>, << >> }

\* What no step of the child on its stdout changes.
partFrame == << serverVars, requestVars, quietVars, drainVars >>

\* The child reads its next request line and writes the beginning of its
\* reply, without a terminator.
ChildBegin(head) ==
    /\ server = "serving"
    /\ ~stdinClosed
    /\ ~stdoutClosed
    /\ childPos < Len(stdinLog)
    /\ partial.for = 0
    /\ childPos' = childPos + 1
    /\ partial' = [text |-> head, for |-> stdinLog[childPos + 1].id,
                   holder |-> 0, lost |-> FALSE]
    /\ UNCHANGED << stdinClosed, stdoutLog, stdoutClosed, emitted >>
    /\ UNCHANGED partFrame

\* The child writes the rest of the line it has begun, and the terminator.
\* The stream of the bridge then holds a line: the whole line, or what is
\* left of it when its beginning went with a dropped read_line.
ChildEnd(tail) ==
    /\ server = "serving"
    /\ ~stdoutClosed
    /\ partial.for # 0
    /\ stdoutLog' = Append(stdoutLog,
           [text |-> (IF partial.lost THEN << >> ELSE partial.text)
                        \o tail \o <<NL>>,
            for |-> partial.for])
    /\ emitted' = Append(emitted, partial.text \o tail \o <<NL>>)
    /\ partial' = NoPartial
    /\ UNCHANGED << childPos, stdinClosed, stdoutClosed >>
    /\ UNCHANGED partFrame

\* The child writes one more whole line for the request it answered last.
ChildExtra(body) ==
    /\ server = "serving"
    /\ ~stdoutClosed
    /\ partial.for = 0
    /\ Len(stdoutLog) > 0
    /\ Len(stdoutLog) < childPos + MaxExtra
    /\ stdoutLog' = Append(stdoutLog, [text |-> body \o <<NL>>,
                                       for |-> stdinLog[childPos].id])
    /\ emitted' = Append(emitted, body \o <<NL>>)
    /\ UNCHANGED << childPos, stdinClosed, stdoutClosed, partial >>
    /\ UNCHANGED partFrame

\* The pending read_line of caller c is polled while the pipe holds the
\* beginning of a line: it takes the bytes into its buffer, finds no
\* terminator, and stays pending.
ReadPart(c) ==
    /\ pc[c] \in Reading
    /\ readPos = Len(stdoutLog)
    /\ partial.for # 0
    /\ partial.holder = 0
    /\ ~partial.lost
    /\ partial' = [partial EXCEPT !.holder = c]
    /\ UNCHANGED emitted
    /\ UNCHANGED << serverVars, requestVars, childVars, quietVars, drainVars >>

\* ------------------------------------------- the stderr task of spawn

\* What the child may put on a line of its stderr before the terminator.
StderrBodies == { <<"a">>, <<BadByte>> }

\* What no step on the child's stderr changes.
drainFrame == << serverVars, requestVars, childVars, quietVars, partialVars >>

\* The child writes a line to its stderr.
ChildStderr(body) ==
    /\ server = "serving"
    /\ ~stderrClosed
    /\ Len(stderrLog) < MaxStderr
    /\ stderrLog' = Append(stderrLog, body \o <<NL>>)
    /\ UNCHANGED << drain, drainPos, stderrClosed >>
    /\ UNCHANGED drainFrame

\* The child closes its stderr.
ChildCloseStderr ==
    /\ server = "serving"
    /\ ~stderrClosed
    /\ stderrClosed' = TRUE
    /\ UNCHANGED << drain, drainPos, stderrLog >>
    /\ UNCHANGED drainFrame

\* Mutant: the task ends after the first line it has read.
DrainLineOnce ==
    /\ drain = "running"
    /\ drainPos < Len(stderrLog)
    /\ drainPos' = drainPos + 1
    /\ drain' = "ended"
    /\ UNCHANGED << stderrLog, stderrClosed >>
    /\ UNCHANGED drainFrame

\* Mutant: the task reads a line only while no caller holds the bridge.
DrainLineUnderGuard ==
    /\ drain = "running"
    /\ holder = 0
    /\ drainPos < Len(stderrLog)
    /\ drainPos' = drainPos + 1
    /\ drain' = IF ValidUtf8(stderrLog[drainPos + 1]) THEN "running"
                                                      ELSE "ended"
    /\ UNCHANGED << stderrLog, stderrClosed >>
    /\ UNCHANGED drainFrame

\* reader.read_line in the task returns a line, which is logged and
\* cleared, or Err on bytes that are not UTF-8, which ends the task.
DrainLine ==
    /\ drain = "running"
    /\ drainPos < Len(stderrLog)
    /\ drainPos' = drainPos + 1
    /\ drain' = IF ValidUtf8(stderrLog[drainPos + 1]) THEN "running"
                                                      ELSE "ended"
    /\ UNCHANGED << stderrLog, stderrClosed >>
    /\ UNCHANGED drainFrame

\* reader.read_line in the task returns Ok(0): the task ends.
DrainEOF ==
    /\ drain = "running"
    /\ drainPos = Len(stderrLog)
    /\ stderrClosed
    /\ drain' = "ended"
    /\ UNCHANGED << drainPos, stderrLog, stderrClosed >>
    /\ UNCHANGED drainFrame

\* ------------------------------------------------------- specification

Next ==
    \/ ServerNewOk
    \/ ServerNewFail
    \/ \E c \in Callers : Lock(c)
    \/ \E c \in Callers : Write(c)
    \/ \E c \in Callers : Flush(c)
    \/ \E c \in Callers : ReadLine(c)
    \/ \E c \in Callers : ReadEOF(c)
    \/ \E c \in Callers : ReadTimeout(c)
    \/ Tick
    \/ \E body \in ReplyBodies : ChildReply(body)
    \/ ChildCloseStdout
    \/ ChildCloseStdin

Spec == Init /\ [][Next]_vars

\* McpHttpServer::new taken step by step, for every configuration,
\* environment and state of the working directory.
InitStartup ==
    /\ InitProcess
    /\ command = [c \in Callers |-> Command]
    /\ InitStart
    /\ config \in Configs
    /\ ambient \in AmbientEnvs
    /\ workTree \in WorkTrees
    /\ InitNoRuntime
    /\ InitNoSetup
    /\ InitStreams
    /\ InitNoAuth

NextStartup ==
    \/ LoadConfig
    \/ GetServer
    \/ \E ok \in BOOLEAN : CreateWorkDir(ok)
    \/ CloneSkip
    \/ \E ok \in BOOLEAN : CloneStart(ok)
    \/ \E code \in ExitCodes : CloneExit(code)
    \/ BuildSkip
    \/ \E ok \in BOOLEAN : BuildStart(ok)
    \/ \E code \in ExitCodes : BuildExit(code)
    \/ \E ok \in BOOLEAN : SpawnChild(ok)
    \/ WrapState
    \/ \E c \in Callers : Lock(c)
    \/ \E repo \in Repositories \cup {NoRepository} : NewAgain(repo)

SpecStartup == InitStartup /\ [][NextStartup]_vars

\* setup_repository of a strategy is called, again and again, for one
\* configuration whose file was read and whose server was found, on a
\* working directory in which <work_dir>/<repo_name> is absent or left
\* there by an earlier run of the server.
InitProvision ==
    /\ InitProcess
    /\ command = [c \in Callers |-> Command]
    /\ InitStart
    /\ config \in {cfg \in Configs : cfg.file = "ok"}
    /\ ambient \in AmbientEnvs
    /\ workTree = [exists |-> TRUE, git |-> NoRepository, clones |-> 0]
    /\ InitNoRuntime
    /\ setup = NoSetup
    /\ cloneTree \in { [exists |-> e, clones |-> 0, removals |-> 0] :
                          e \in BOOLEAN }
    /\ InitStreams
    /\ InitNoAuth

NextProvision ==
    \/ \E rt \in Strategies : SetupCall(rt)
    \/ SetupStub
    \/ \E ok \in BOOLEAN : SetupBegin(ok)
    \/ \E ok \in BOOLEAN : SetupCloneStart(ok)
    \/ \E code \in ExitCodes : SetupCloneExit(code)
    \/ SetupBuildSkip
    \/ \E ok \in BOOLEAN : SetupBuildStart(ok)
    \/ \E code \in ExitCodes : SetupBuildExit(code)

SpecProvision == InitProvision /\ [][NextProvision]_vars

\* Two runtimes are selected by name, for every pair of names.
InitRuntime ==
    /\ InitProcess
    /\ command = [c \in Callers |-> Command]
    /\ InitStart
    /\ InitFixedConfig
    /\ runtimeType \in RuntimeNames \X RuntimeNames
    /\ created = << NotCreated, NotCreated >>
    /\ probes = << >>
    /\ InitNoSetup
    /\ InitStreams
    /\ InitNoAuth

NextRuntime ==
    \/ \E i \in 1..2 : CreateRuntime(i)
    \/ \E i \in 1..2 : SetupEnvironment(i)

SpecRuntime == InitRuntime /\ [][NextRuntime]_vars

\* bearer_auth_middleware runs on a request to /api/v1 that carries this
\* Authorization header: it answers 401, or hands the request on.
bearer_auth_middleware(c, header) ==
    /\ server = "serving"
    /\ pc[c] = "idle"
    /\ request[c] = NoRequest
    /\ request' = [request EXCEPT ![c] =
                      [authorization |-> header,
                       verdict |-> Authorize(auth_config, header)]]
    /\ UNCHANGED << authEnv, auth_config >>
    /\ UNCHANGED << command, startVars, runtimeVars, provisionVars >>
    /\ UNCHANGED << serverVars, requestVars, childVars, drainVars,
                    partialVars >>

\* next.run(request): handle_mcp_request begins and asks for the guard.
NextRunLock(c) ==
    /\ request[c].verdict.next
    /\ Lock(c)

\* The server behind its middleware: the environment names a key or none
\* and sets DISABLE_AUTH or not, requests come in with every kind of
\* Authorization header, and the child echoes.
InitAuth ==
    /\ InitProcess
    /\ command = [c \in Callers |-> Command]
    /\ InitStart
    /\ InitFixedConfig
    /\ InitNoRuntime
    /\ InitNoSetup
    /\ InitStreams
    /\ authEnv \in AuthEnvs
    /\ auth_config = from_env(NoAuthEnv)
    /\ request = [c \in Callers |-> NoRequest]

NextAuth ==
    \/ ServerNewOk
    \/ \E c \in Callers, header \in Headers : bearer_auth_middleware(c, header)
    \/ \E c \in Callers : NextRunLock(c)
    \/ \E c \in Callers : Write(c)
    \/ \E c \in Callers : Flush(c)
    \/ \E c \in Callers : ReadLine(c)
    \/ ChildEcho

SpecAuth == InitAuth /\ [][NextAuth]_vars

\* A client of the library that shares one bridge behind the mutex as the
\* server does and whose callers call initialize as well as query.  The child
\* answers, or exits and so closes its streams.
NextBridge ==
    \/ ServerNewOk
    \/ \E c \in Callers : Lock(c)
    \/ \E c \in Callers : Write(c)
    \/ \E c \in Callers : Flush(c)
    \/ \E c \in Callers : ReadLine(c)
    \/ \E c \in Callers : ReadEOF(c)
    \/ \E c \in Callers : ReadTimeout(c)
    \/ \E c \in Callers : InitWrite(c)
    \/ \E c \in Callers : InitFlush(c)
    \/ \E c \in Callers : InitRead(c)
    \/ \E c \in Callers : InitReadEOF(c)
    \/ \E c \in Callers : InitReadTimeout(c)
    \/ \E c \in Callers : InitNotify(c)
    \/ \E c \in Callers : InitNotifyFlush(c)
    \/ Tick
    \/ \E body \in HandshakeBodies : ChildReply(body)
    \/ ChildSkip
    \/ ChildExit

SpecBridge == Init /\ [][NextBridge]_vars

\* The server, its callers of query and of initialize, a child that answers
\* every line and writes to its stderr as it likes, and the stderr task.
NextDrain ==
    \/ ServerNewOk
    \/ \E c \in Callers : Lock(c)
    \/ \E c \in Callers : Write(c)
    \/ \E c \in Callers : Flush(c)
    \/ \E c \in Callers : ReadLine(c)
    \/ \E c \in Callers : ReadEOF(c)
    \/ \E c \in Callers : InitWrite(c)
    \/ \E c \in Callers : InitFlush(c)
    \/ \E c \in Callers : InitRead(c)
    \/ \E c \in Callers : InitReadEOF(c)
    \/ \E c \in Callers : InitNotify(c)
    \/ \E c \in Callers : InitNotifyFlush(c)
    \/ ChildReply(<<"{", "result", "}">>)
    \/ ChildSkip
    \/ ChildExit
    \/ \E body \in StderrBodies : ChildStderr(body)
    \/ ChildCloseStderr
    \/ DrainLine
    \/ DrainEOF

SpecDrain == Init /\ [][NextDrain]_vars

\* The server and its callers of query in front of a child that writes
\* each reply line in two parts, at its own pace, and may write more lines
\* than it was asked for.
NextPartial ==
    \/ ServerNewOk
    \/ \E c \in Callers : Lock(c)
    \/ \E c \in Callers : Write(c)
    \/ \E c \in Callers : Flush(c)
    \/ \E c \in Callers : ReadPart(c)
    \/ \E c \in Callers : ReadLine(c)
    \/ \E c \in Callers : ReadTimeout(c)
    \/ Tick
    \/ \E head \in LineHeads : ChildBegin(head)
    \/ \E tail \in LineTails : ChildEnd(tail)
    \/ \E body \in LineHeads : ChildExtra(body)

SpecPartial == Init /\ [][NextPartial]_vars

\* The server and its callers of query under fair scheduling: every step
\* of a handler that can be taken is taken in the end and time goes on,
\* while the child does what it likes: it reads and answers or does not,
\* closes its output, exits.
NextLive ==
    \/ ServerNewOk
    \/ \E c \in Callers : Lock(c)
    \/ \E c \in Callers : WriteWhenRoom(c)
    \/ \E c \in Callers : Flush(c)
    \/ \E c \in Callers : ReadLine(c)
    \/ \E c \in Callers : ReadEOF(c)
    \/ \E c \in Callers : ReadTimeout(c)
    \/ Tick
    \/ ChildReply(<<"a">>)
    \/ ChildCloseStdout
    \/ ChildExit

FairLive ==
    /\ WF_vars(ServerNewOk)
    /\ WF_vars(Tick)
    /\ \A c \in Callers :
          /\ WF_vars(Lock(c))
          /\ WF_vars(WriteWhenRoom(c))
          /\ WF_vars(Flush(c))
          /\ WF_vars(ReadLine(c))
          /\ WF_vars(ReadEOF(c))
          /\ WF_vars(ReadTimeout(c))

SpecLive == Init /\ [][NextLive]_vars /\ FairLive

\* The server and its callers of query, whose clients may go away at any
\* time, in front of a child that reads every request and writes one line
\* of text for it; no read runs into its bound.
NextAbandon ==
    \/ ServerNewOk
    \/ \E c \in Callers : Lock(c)
    \/ \E c \in Callers : Write(c)
    \/ \E c \in Callers : Flush(c)
    \/ \E c \in Callers : ReadLine(c)
    \/ \E c \in Callers : Abandon(c)
    \/ \E body \in {<<"a">>, <<"b">>} : ChildReply(body)

SpecAbandon == Init /\ [][NextAbandon]_vars

\* The server in front of an echoing child, with every choice of payloads.
InitEcho ==
    /\ InitProcess
    /\ command \in [Callers -> Payloads]
    /\ InitStart
    /\ InitFixedConfig
    /\ InitNoRuntime
    /\ InitNoSetup
    /\ InitStreams
    /\ InitNoAuth

NextEcho ==
    \/ ServerNewOk
    \/ \E c \in Callers : Lock(c)
    \/ \E c \in Callers : Write(c)
    \/ \E c \in Callers : Flush(c)
    \/ \E c \in Callers : ReadLine(c)
    \/ \E c \in Callers : ReadTimeout(c)
    \/ Tick
    \/ ChildEcho

SpecEcho == InitEcho /\ [][NextEcho]_vars

\* ------------------------------------------------------------- properties

Done(c) == pc[c] = "done"
Failed(c) == outcome[c].kind = "err"
Succeeded(c) == outcome[c].kind = "ok"

\* The positions in pipeTrace of caller c's writes, and of its reads.
WritesOf(c) == {i \in 1..Len(pipeTrace) : pipeTrace[i] = <<"w", c>>}
ReadsOf(c) == {i \in 1..Len(pipeTrace) : pipeTrace[i] = <<"r", c>>}
AllWrites == {i \in 1..Len(pipeTrace) : pipeTrace[i][1] = "w"}
AllReads == {i \in 1..Len(pipeTrace) : pipeTrace[i][1] = "r"}

\* Every write in the trace but a trailing one is followed at once by the
\* read of the same caller, and every read follows its caller's write.
Alternates ==
    \A i \in 1..Len(pipeTrace) :
        /\ pipeTrace[i][1] = "w" /\ i < Len(pipeTrace)
              => pipeTrace[i + 1] = <<"r", pipeTrace[i][2]>>
        /\ pipeTrace[i][1] = "r"
              => i > 1 /\ pipeTrace[i - 1] = <<"w", pipeTrace[i][2]>>

\* The caller whose request the child answered with line n of its output.
ReplyFor(n) == stdoutLog[n].for

ChildWellBehaved ==
    \A n \in 1..Len(stdoutLog) : LineResult(n).kind = "ok"

NoTimeout == \A c \in Callers : outcome[c].msg # MsgTimeout

C4_HandshakeBeforeQuery ==
    \A i \in 1..Len(stdinLog) :
        stdinLog[i].kind = "query" => handshake = "done"

\* C5: the request of a timed-out query stays written, the query has
\* consumed no line, and the reply the child writes for it is either still
\* unread in the stream or has been consumed by another caller.
C5_TimedOutReplyOwed ==
    \A c \in Callers :
        outcome[c].msg = MsgTimeout =>
            /\ \E i \in 1..Len(stdinLog) : stdinLog[i].id = c
            /\ outcome[c].line = 0
            /\ \A n \in 1..Len(stdoutLog) :
                  ReplyFor(n) = c =>
                      \/ n > readPos
                      \/ \E d \in Callers \ {c} : outcome[d].line = n

\* C5 witness: c timed out, the child answered c's request afterwards, and
\* another caller d returned that answer as its own successful result.
C5_Witness ==
    \E c, d \in Callers :
        /\ c # d
        /\ outcome[c].msg = MsgTimeout
        /\ Succeeded(d)
        /\ ReplyFor(outcome[d].line) = c

\* The step in which caller c's query fails.
FailsNow(c) == outcome[c].kind = "none" /\ outcome'[c].kind = "err"

\* C6: the step in which a query fails leaves the child, the lines already
\* written to it, the session and the number of spawned children as they
\* were and frees the guard; no request is ever written twice.
C6_FailureChangesNothing ==
    /\ [][\A c \in Callers :
            FailsNow(c) =>
                /\ stdinLog' = stdinLog
                /\ UNCHANGED << childPos, stdinClosed, stdoutLog, stdoutClosed >>
                /\ UNCHANGED << server, spawnCount, childKilled >>
                /\ holder' # c]_vars
    /\ [](\A c \in Callers :
            Cardinality({i \in 1..Len(stdinLog) : stdinLog[i].id = c}) <= 1)

\* C6 witness: after c's query timed out, a later query d was written to the
\* same stdin behind c's request and read a line from the same stdout.
C6_Witness ==
    \E c, d \in Callers :
        /\ outcome[c].msg = MsgTimeout
        /\ outcome[d].line > 0
        /\ \E i, j \in 1..Len(stdinLog) :
              i < j /\ stdinLog[i].id = c /\ stdinLog[j].id = d
        /\ server = "serving" /\ spawnCount = 1 /\ ~childKilled

\* C7: the guard is held only by a caller inside its query, never by one
\* that has returned, with or without an error; and it is never idle while
\* a caller waits for it, the waiters being exactly the queued callers.
C7_GuardReleased ==
    /\ holder # 0 => pc[holder] \in InQuery
    /\ \A c \in Callers : Done(c) => holder # c
    /\ waitq # << >> => holder # 0
    /\ \A c \in Callers :
          pc[c] = "waiting" <=> \E i \in 1..Len(waitq) : waitq[i] = c

\* C7 witness: c's query failed after its request was written, d acquired
\* the guard after that and returned successfully, and the guard is free.
C7_Witness ==
    \E c, d \in Callers :
        /\ Done(c) /\ Failed(c)
        /\ Done(d) /\ Succeeded(d)
        /\ \E i, j \in 1..Len(stdinLog) :
              i < j /\ stdinLog[i].id = c /\ stdinLog[j].id = d
        /\ holder = 0

\* The read of caller c sees the end of the child's output and nothing else.
SeesEOF(c) ==
    pc[c] = "reading" /\ stdoutClosed /\ readPos = Len(stdoutLog)

\* C8: a read that sees only the end of the child's output can return at
\* once, whatever time has passed, and when it returns the result is the
\* "closed the connection" error, never the timeout.
C8_EOFReturnsClosed ==
    /\ [](\A c \in Callers :
            SeesEOF(c) => ENABLED ReadEOF(c) /\ ~ENABLED ReadTimeout(c))
    /\ [][\A c \in Callers :
            (SeesEOF(c) /\ Done(c)') => outcome'[c] = Err(MsgEOF, 0)]_vars

\* C8 witness: a query returned the EOF error although the child has written
\* no line for its request, before the bound had elapsed for anyone.
C8_Witness ==
    \E c \in Callers :
        /\ outcome[c] = Err(MsgEOF, 0)
        /\ \A n \in 1..Len(stdoutLog) : ReplyFor(n) # c
        /\ NoTimeout

\* Caller c's request has been written and flushed.
Sent(c) == WritesOf(c) # {} /\ outcome[c].msg # MsgFlush

Blank(n) == Trim(stdoutLog[n].text) = << >>

\* C10: a query that consumed a blank line has failed with the empty-line
\* error, which is neither the EOF error nor the timeout error, and no
\* successful query has the empty string as its result.
C10_BlankLineIsError ==
    \A c \in Callers :
        /\ (outcome[c].line > 0 /\ Blank(outcome[c].line)) =>
              /\ outcome[c] = Err(MsgEmpty, outcome[c].line)
              /\ outcome[c].msg \notin {MsgEOF, MsgTimeout}
        /\ Succeeded(c) => outcome[c].result # << >>

\* C10 witness: one query consumed a line holding only the terminator and
\* another a line holding a space, and both failed with the empty-line error.
C10_Witness ==
    \E c, d \in Callers :
        /\ outcome[c].line > 0 /\ stdoutLog[outcome[c].line].text = <<NL>>
        /\ outcome[d].line > 0 /\ stdoutLog[outcome[d].line].text = <<" ", NL>>
        /\ outcome[c].msg = MsgEmpty /\ outcome[d].msg = MsgEmpty

\* ------------------------------------------------------------- C11

LineOf(c) == stdoutLog[outcome[c].line].text

\* C12: the result of a successful query is the line it read with the
\* whitespace at its end removed and nothing else: what the line begins
\* with is returned as it is.
C12_OnlyTrailingRemoved ==
    \A c \in Callers : Succeeded(c) => outcome[c].result = TrimEnd(LineOf(c))

\* ------------------------------------------------------------- C13

\* The child process has exited.
ChildExited == stdinClosed /\ stdoutClosed

\* The first step of a call: the caller holds the bridge and leaves the
\* position in which it has not yet written.
Begins(c) == pc[c] = "locked" /\ pc'[c] # "locked"

\* C13: an exited child stays exited, and a query or an initialize that
\* begins once the child has exited returns in its first step, with the
\* ProcessError of its failed write: it is never a success.
C13_ClosedFails ==
    /\ [][ChildExited => ChildExited']_vars
    /\ [][ChildExited =>
             \A c \in Callers :
                 Begins(c) =>
                     /\ pc'[c] = "done"
                     /\ outcome'[c].kind = "err"
                     /\ outcome'[c].msg \in {MsgWrite, MsgInitWrite}
                     /\ stdinLog' = stdinLog]_vars

\* After the exit of the child a query and an initialize have both failed
\* (in SpecBridge the child's stdin closes by its exit only).
C13_Witness ==
    /\ ChildExited
    /\ \E c, d \in Callers :
          /\ Done(c) /\ outcome[c] = Err(MsgWrite, 0)
          /\ Done(d) /\ outcome[d] = Err(MsgInitWrite, 0)

\* ------------------------------------------------------------- C14

\* The place of an entry of `ran` in the order of start-up.
Rank(e) ==
    IF e.cmd = "clone" THEN (IF e.event = "start" THEN 1 ELSE 2)
    ELSE IF e.cmd = "build" THEN (IF e.event = "start" THEN 3 ELSE 4)
    ELSE 5

\* Command cmd has exited with success before position j of `ran`.
DoneBefore(cmd, j) ==
    \E k \in 1..(j - 1) : ran[k] = Exited(cmd, "Some(0)")

\* C14: within one start the external commands run in the order clone,
\* build, spawn and each at most once; the build starts and the child is
\* spawned only when a clone that was started has exited with success and
\* the configured repository is in the working directory; the child is
\* spawned only when a configured build has exited with success.
C14_FixedOrder ==
    /\ \A i, j \in 1..Len(ran) : i < j => Rank(ran[i]) < Rank(ran[j])
    /\ \A j \in 1..Len(ran) :
          Rank(ran[j]) >= 3 =>
              /\ (\E i \in 1..(j - 1) : ran[i].cmd = "clone")
                    => DoneBefore("clone", j)
              /\ config.repository # NoRepository
                    => workTree.git # NoRepository
    /\ \A j \in 1..Len(ran) :
          Rank(ran[j]) = 5 =>
              (config.build_command # NoBuild => DoneBefore("build", j))

\* A start has cloned, built and spawned.
C14_Witness ==
    /\ Len(ran) = 5
    /\ server = "serving"

\* ------------------------------------------------------------- C15

\* C15: once the build command has exited without success, McpHttpServer::new
\* has returned the ProcessError that names the exit code and the command,
\* nothing has run after the build and no child was spawned in that start.
C15_BuildFailureAborts ==
    \A i \in 1..Len(ran) :
        (ran[i].cmd = "build" /\ ran[i].event = "exit"
           /\ ~Success(ran[i].code)) =>
            /\ i = Len(ran)
            /\ step = "done"
            /\ server = "failed"
            /\ newResult = NewErr("ProcessError", MsgBuildFailed, ran[i].code,
                                  config.build_command)
            /\ \A j \in 1..Len(ran) : ran[j].cmd # "spawn"

\* After a clone, the build has exited with code 1.
C15_Witness ==
    /\ Len(ran) = 4
    /\ ran[4] = Exited("build", "Some(1)")
    /\ newResult.code = "Some(1)"

\* ------------------------------------------------------------- C16

\* The clone step is called with the .git entry in place.
MarkerPresent ==
    /\ step = "clone"
    /\ config.repository # NoRepository
    /\ workTree.git # NoRepository

\* C16 as stated: git clone runs at most once in a working directory,
\* however often the clone step is called.
C16_Original == workTree.clones <= 1

\* C16, amended: a clone step that finds the .git entry runs no command,
\* leaves the working directory as it is and goes on to the build, whatever
\* URL the configuration names; and once a clone has succeeded no further
\* git clone runs in the directory.
C16_MarkerSkipsClone ==
    /\ [][MarkerPresent =>
             /\ step' = "build"
             /\ UNCHANGED << ran, workTree, newResult, server >>]_vars
    /\ [][workTree.git # NoRepository =>
             workTree'.clones = workTree.clones]_vars

\* The second call has passed its clone step without a command, the first
\* call having cloned another repository than the one now configured.
C16_Witness ==
    /\ starts = 2
    /\ step = "build"
    /\ ran = << >>
    /\ workTree.clones = 1
    /\ config.repository \notin {NoRepository, workTree.git}

\* ------------------------------------------------------------- C17

\* The positions of McpHttpServer::new in the order of the code.
StepNo ==
    [load |-> 1, lookup |-> 2, mkdir |-> 3, clone |-> 4, cloning |-> 5,
     build |-> 6, building |-> 7, spawn |-> 8, wrap |-> 9, done |-> 10]

\* McpHttpServer::new has come past position `name` without an error.
Past(name) == StepNo[step] > StepNo[name] /\ newResult.kind # "err"

Spawned == \E i \in 1..Len(ran) : ran[i].cmd = "spawn"

C18_DeclaredWins ==
    \A i \in 1..Len(ran) :
        (ran[i].cmd \in {"build", "spawn"} /\ ran[i].event = "start") =>
            \A k \in EnvKeys :
                ran[i].env[k] = (IF config.env[k] # Unset THEN config.env[k]
                                                         ELSE ambient[k])

\* ------------------------------------------------------------- C19

\* Two names are the same but for the case of their letters.
SameUpToCase(a, b) ==
    /\ Len(a) = Len(b)
    /\ \A i \in 1..Len(a) : LowerChar(a[i]) = LowerChar(b[i])

\* The name is one of the recognised set, in some letter case.
Recognised(name) ==
    \E s \in NodeSpellings \cup PythonSpellings \cup GoSpellings :
        SameUpToCase(name, s)

Decided(i) == created[i].kind # "none"
ProbedFor(i) == \E j \in 1..Len(probes) : probes[j].for = i

\* C19: the selection of a name outside the recognised set has failed
\* with ConfigurationError quoting the name, and no tool was probed for it.
C19_UnknownIsConfigurationError ==
    \A i \in 1..2 :
        (Decided(i) /\ ~Recognised(runtimeType[i])) =>
            /\ created[i].kind = "err"
            /\ created[i].variant = "ConfigurationError"
            /\ created[i].arg = runtimeType[i]
            /\ ~ProbedFor(i)

\* ------------------------------------------------------------- C20

\* C20: a name that is node, nodejs, javascript or typescript in some
\* letter case has selected the Node strategy, one that is python, python3
\* or py the Python strategy, one that is go or golang the Go strategy; and
\* two names that differ in case only have got the same answer.
C20_CaseInsensitive ==
    /\ \A i \in 1..2 :
          Decided(i) =>
              /\ (\E s \in NodeSpellings : SameUpToCase(runtimeType[i], s))
                    => created[i] = RuntimeOk("NodeRuntime")
              /\ (\E s \in PythonSpellings : SameUpToCase(runtimeType[i], s))
                    => created[i] = RuntimeOk("PythonRuntime")
              /\ (\E s \in GoSpellings : SameUpToCase(runtimeType[i], s))
                    => created[i] = RuntimeOk("GoRuntime")
    /\ \A i, j \in 1..2 :
          (Decided(i) /\ Decided(j)
             /\ SameUpToCase(runtimeType[i], runtimeType[j])) =>
              /\ created[i].kind = created[j].kind
              /\ created[i].runtime = created[j].runtime

\* Two different spellings of one name have selected the Python strategy.
C20_Witness ==
    /\ runtimeType[1] # runtimeType[2]
    /\ SameUpToCase(runtimeType[1], runtimeType[2])
    /\ created[1] = RuntimeOk("PythonRuntime")
    /\ created[2] = RuntimeOk("PythonRuntime")

\* ------------------------------------------------------------- C23

\* What caller c has done on the pipe, in order, and the lines it wrote.
TraceOf(c) == SelectSeq(pipeTrace, LAMBDA e : e[2] = c)
LinesOf(c) == SelectSeq(stdinLog, LAMBDA e : e.id = c)

\* Caller c's call is an initialize: it wrote the initialize request.
IsInit(c) == \E i \in 1..Len(stdinLog) :
                 stdinLog[i].id = c /\ stdinLog[i].kind = "initialize"

\* C23: an initialize that has returned Ok(()) has written the request
\* line, read one line, and written the notification line, in this order
\* and with nothing of another caller in between; it consumed one line of
\* the child's output, and its read never waits a tick beyond TimeoutSecs.
C23_HandshakeSequence ==
    \A c \in Callers :
        /\ pc[c] = "ireading" => waited[c] < TimeoutSecs + TickSecs
        /\ outcome[c].kind = "initialized" =>
              /\ TraceOf(c) = << <<"w", c>>, <<"r", c>>, <<"w", c>> >>
              /\ \E i \in 1..Len(pipeTrace) :
                     /\ i + 2 <= Len(pipeTrace)
                     /\ pipeTrace[i] = <<"w", c>>
                     /\ pipeTrace[i + 1] = <<"r", c>>
                     /\ pipeTrace[i + 2] = <<"w", c>>
              /\ Len(LinesOf(c)) = 2
              /\ LinesOf(c)[1].text = InitRequest \o <<NL>>
              /\ LinesOf(c)[2].text = InitializedNotification \o <<NL>>
              /\ outcome[c].line \in 1..readPos
              /\ \A d \in Callers \ {c} : outcome[d].line # outcome[c].line

\* C23 witness: an initialize has succeeded and the pipe has been used by
\* another call after it.
C23_Witness ==
    \E c \in Callers :
        /\ Done(c) /\ outcome[c].kind = "initialized"
        /\ Len(pipeTrace) > 3
        /\ pipeTrace[Len(pipeTrace)][2] # c

\* ------------------------------------------------------------- C24

\* Caller c's initialize has read a line that is text, is not blank and
\* does not parse as JSON.
ReadUnparsable(c) ==
    /\ IsInit(c)
    /\ outcome[c].line > 0
    /\ ValidUtf8(LineOf(c))
    /\ ~Blank(outcome[c].line)
    /\ ~ParsesAsJson(Trim(LineOf(c)))

\* Caller c has written the "initialized" notification.
Notified(c) == \E i \in 1..Len(stdinLog) :
                   stdinLog[i].id = c /\ stdinLog[i].kind = "notification"

\* C24 as stated: an initialize that has read a line which does not parse
\* as JSON, whatever the line, is not aborted; once it has returned it has
\* written the notification and its result is Ok(()).
C24_Original ==
    \A c \in Callers :
        (/\ IsInit(c) /\ Done(c) /\ outcome[c].line > 0
         /\ ~(ValidUtf8(LineOf(c)) /\ ParsesAsJson(Trim(LineOf(c)))))
            => Notified(c) /\ outcome[c].kind = "initialized"

\* C24 as amended: an initialize that has read a line of text which is not
\* blank and does not parse as JSON goes on to the notification; it returns
\* Ok(()) with the notification written, or the ProcessError of the write
\* or the flush of the notification.
C24_UnparsableNotAborted ==
    \A c \in Callers :
        ReadUnparsable(c) =>
            /\ pc[c] \in {"inotify", "inotified", "done"}
            /\ Done(c) =>
                  \/ outcome[c].kind = "initialized" /\ Notified(c)
                  \/ Failed(c) /\ outcome[c].msg = MsgNotifyWrite
                               /\ ~Notified(c)
                  \/ Failed(c) /\ outcome[c].msg = MsgNotifyFlush
                               /\ Notified(c)
            /\ (Done(c) /\ ~stdinClosed) => outcome[c].kind = "initialized"

\* C24 witness: an initialize has returned Ok(()) on a line that is not
\* JSON.
C24_Witness ==
    \E c \in Callers :
        ReadUnparsable(c) /\ Done(c) /\ outcome[c].kind = "initialized"

\* ------------------------------------------------------------- C25

\* Caller c's initialize has read an object with an "error" member.
ReadError(c) ==
    /\ IsInit(c)
    /\ outcome[c].line > 0
    /\ ValidUtf8(LineOf(c))
    /\ ParsesAsJson(Trim(LineOf(c)))
    /\ HasMember(Trim(LineOf(c)), "error")

\* C25: an initialize that has read a JSON object with an "error" member
\* has returned the ProcessError of the initialization error and has not
\* written the notification, with or without a "result" member.
C25_ErrorMemberFails ==
    \A c \in Callers :
        ReadError(c) =>
            /\ Done(c)
            /\ outcome[c] = Err(MsgInitError, outcome[c].line)
            /\ ~Notified(c)
            /\ Len(LinesOf(c)) = 1

\* C25 witness: an initialize has failed on a reply with both members.
C25_Witness ==
    \E c \in Callers :
        /\ ReadError(c)
        /\ HasMember(Trim(LineOf(c)), "result")
        /\ outcome[c].msg = MsgInitError

\* ------------------------------------------------------------- C22

\* The last external command start-up ran was the clone, and it has exited
\* with a status that is not success.
CloneFailed ==
    /\ Len(ran) > 0
    /\ ran[Len(ran)].cmd = "clone"
    /\ ran[Len(ran)].event = "exit"
    /\ ~Success(ran[Len(ran)].code)

\* The parts the message of the error returned by start-up is made of.
MessageParts == {newResult.msg, newResult.code, newResult.arg}

\* C22: once the clone has exited with a status that is not success,
\* start-up has stopped with a ProcessError whose message holds the exit
\* code of the clone and what the clone wrote to its standard error.
C22_MessageHasCodeAndStderr ==
    CloneFailed =>
        /\ step = "done"
        /\ server = "failed"
        /\ newResult.kind = "err"
        /\ newResult.variant = "ProcessError"
        /\ ran[Len(ran)].code \in MessageParts
        /\ Stderr(ran[Len(ran)].code) \in MessageParts

\* ------------------------------------------------------------- C21

\* C21: no step deletes a working tree that exists, be it the server's
\* working directory or the directory of the clone in it, and no step
\* clones into a tree that holds a clone already.
C21_TreeNeverDeleted ==
    [][/\ workTree.exists => workTree'.exists
       /\ workTree.git # NoRepository => workTree'.clones = workTree.clones
       /\ cloneTree.exists =>
             /\ cloneTree'.exists
             /\ cloneTree'.removals = cloneTree.removals
             /\ cloneTree'.clones = cloneTree.clones]_vars

\* ------------------------------------------------------------- C27

\* The stderr task takes a step.
DrainStep == drain # "none" /\ (drainPos' # drainPos \/ drain' # drain)

\* C27: the stderr task runs from the spawn of the child on, so that
\* nothing is written to the child's stdin before it runs; it ends only
\* when read_line returns the end of the stream or an error; and no step
\* of it writes to the child's stdin or reads from its stdout.
C27_DrainLifetime ==
    /\ [](drain # "none" <=> spawnCount > 0)
    /\ [](stdinLog # << >> => drain # "none")
    /\ [][(drain = "running" /\ drain' = "ended") =>
             \/ drainPos = Len(stderrLog) /\ stderrClosed
             \/ /\ drainPos < Len(stderrLog)
                /\ ~ValidUtf8(stderrLog[drainPos + 1])]_vars
    /\ [][DrainStep =>
             UNCHANGED << stdinLog, pipeTrace, readPos, stdoutLog >>]_vars

\* C27 witness: requests have been written and answered, and the task has
\* read a line and then ended at the end of the stream.
C27_Witness ==
    /\ drain = "ended"
    /\ drainPos = Len(stderrLog) /\ drainPos > 0
    /\ ValidUtf8(stderrLog[drainPos])
    /\ Len(stdinLog) > 1 /\ readPos > 0

\* ------------------------------------------------------------- C28

\* C28: while the task runs and a line of the child's stderr is unread, the
\* task can read it, whoever holds or awaits the bridge, and its steps leave
\* the guard and its queue as they are.
C28_DrainNeverBlocked ==
    /\ []((drain = "running" /\ drainPos < Len(stderrLog))
             => ENABLED DrainLine)
    /\ [][DrainStep => UNCHANGED << holder, waitq, pc >>]_vars

\* C28 witness: the task has read one line and the next is unread, while a
\* query waits for its reply with the guard and another caller waits for
\* the guard.
C28_Witness ==
    /\ drain = "running"
    /\ drainPos = 1 /\ Len(stderrLog) = 2
    /\ holder # 0 /\ pc[holder] = "reading"
    /\ waitq # << >>

\* ------------------------------------------------------------- C26

\* The lines of the child's output that calls have consumed.
Consumed == {outcome[c].line : c \in Callers} \ {0}

\* C26: a query that ended in success or in the empty-line error consumed
\* one line that no other call consumed, the lines are consumed in their
\* order with none left out, and the line is a whole line as the child wrote
\* it, neither a part of one nor several: the result of a success is that
\* line, trimmed.
C26_OneWholeLinePerCall ==
    /\ \A c \in Callers :
          (Succeeded(c) \/ outcome[c].msg = MsgEmpty) =>
              /\ outcome[c].line \in 1..readPos
              /\ \A d \in Callers \ {c} : outcome[d].line # outcome[c].line
              /\ LineOf(c) = emitted[outcome[c].line]
              /\ Succeeded(c) =>
                    outcome[c].result = Trim(emitted[outcome[c].line])
    /\ Consumed = 1..readPos

\* ------------------------------------------------------------- C29

\* C29: under fair scheduling every call of query that has begun returns
\* in the end, and no caller keeps the guard for ever, whatever the child
\* does.
C29_EveryQueryReturns ==
    \A c \in Callers :
        /\ (pc[c] \notin {"idle", "done"}) ~> Done(c)
        /\ (holder = c) ~> (holder # c)

\* ------------------------------------------------------------- C30

\* C30: a caller that has written its request keeps the guard until its
\* read has ended and it returns, and the line a successful query returns
\* is the reply to its own request, also after another handler was
\* abandoned.
C30_GuardHeldToEndOfRead ==
    /\ [][\A c \in Callers :
             (holder = c /\ pc[c] \in {"written", "reading"}) =>
                 (holder' = c \/ pc'[c] = "done")]_vars
    /\ [](\A c \in Callers :
             Succeeded(c) => ReplyFor(outcome[c].line) = c)

\* ------------------------------------------------------------- C31

\* The call of c has ended in the error of write_all or of flush.
SendFailed(c) == Failed(c) /\ outcome[c].msg \in {MsgWrite, MsgFlush}

\* C31: a query whose write or flush of the request line failed returns
\* the error without reading: the step that fails leaves the read position
\* in the child's output where it was, and the call reads no line, neither
\* before nor after.
C31_FailedSendReadsNothing ==
    /\ [][\A c \in Callers :
             (~SendFailed(c) /\ SendFailed(c)') =>
                 /\ readPos' = readPos
                 /\ pipeTrace' = pipeTrace
                 /\ Done(c)']_vars
    /\ [](\A c \in Callers :
             SendFailed(c) => ReadsOf(c) = {} /\ outcome[c].line = 0)

\* C31 witness: a flush has failed while a line of the child's output was
\* waiting to be read, and a write has failed in the same way.
C31_Witness ==
    /\ readPos < Len(stdoutLog)
    /\ \E c \in Callers : Done(c) /\ outcome[c].msg = MsgFlush
    /\ \E c \in Callers : Done(c) /\ outcome[c].msg = MsgWrite

\* ------------------------------------------------------------- C32

\* The initialize of caller c has returned an error.
InitFailed(c) == IsInit(c) /\ Done(c) /\ Failed(c)

Answered(c) == request[c].verdict # NoVerdict

\* The Authorization header is missing, is not of the form
\* "Bearer <token>", or carries a token that is not the configured key.
BadHeader(header, key) ==
    \/ header = None
    \/ /\ header # None
       /\ \/ ~StartsWith(header[1], BearerPrefix)
          \/ /\ StartsWith(header[1], BearerPrefix)
             /\ SubSeq(header[1], 3, Len(header[1])) # key

\* C33: the server's AuthConfig is enabled exactly when HTTP_API_KEY is set
\* and DISABLE_AUTH is not "true"; while it is enabled, a request with a
\* bad Authorization header is answered 401, is never handed on, never
\* holds or waits for the guard, and none of its lines is written to the
\* child.
C33_BadHeaderNeverReachesChild ==
    /\ server = "serving" =>
          auth_config.enabled = (/\ authEnv.HTTP_API_KEY # None
                                 /\ authEnv.DISABLE_AUTH # Some("true"))
    /\ \A c \in Callers :
          (/\ auth_config.enabled
           /\ Answered(c)
           /\ BadHeader(request[c].authorization, auth_config.api_key[1])) =>
              /\ request[c].verdict.status = 401
              /\ ~request[c].verdict.next
              /\ pc[c] = "idle"
              /\ holder # c
              /\ \A i \in 1..Len(waitq) : waitq[i] # c
              /\ WritesOf(c) = {}
              /\ LinesOf(c) = << >>
              /\ outcome[c] = NoOutcome

\* C33 witness: with authentication enabled by a key and DISABLE_AUTH set
\* to a value that is not "true", a request with a wrong token was answered
\* 401 and a request with the right token was served.
C33_Witness ==
    /\ auth_config.enabled
    /\ authEnv.DISABLE_AUTH = Some("TRUE")
    /\ \E c \in Callers :
          /\ request[c].verdict = Unauthorized(MsgAuthKey)
          /\ pc[c] = "idle"
    /\ \E c \in Callers :
          /\ request[c].verdict = NextRun
          /\ Done(c)
          /\ Succeeded(c)

====
